---- MODULE Spec2Model ----
(***************************************************************************)
(* A model of simtom: the generator framework (configuration validation,   *)
(* the two delivery loops of BaseGenerator.stream), the entity registries, *)
(* the BNPL risk indicators and the plugin registry behind the HTTP API.   *)
(*                                                                         *)
(* Conventions.  An Optional[T] value is a sequence: None is << >> and a   *)
(* present value v is <<v>>.  A date is its day ordinal (an integer), a    *)
(* datetime is the number of seconds since ordinal 0, so that comparing    *)
(* datetimes and taking .date() are the integer operations.  Real numbers  *)
(* are kept as exact scaled integers; the scale is named where it is used. *)
(***************************************************************************)
EXTENDS Integers, Sequences, FiniteSets, TLC

VARIABLES
    \* ---- one generator instance and the consumers of its stream()
    generator_class,        \* the concrete class of the instance
    max_records,            \* config.max_records            (Optional int)
    start_date,             \* config.start_date             (Optional date)
    end_date,               \* config.end_date               (Optional date)
    volume_variation_enabled,
    base_daily_volume,
    config_seed,            \* config.seed                   (Optional int)
    _historical_timestamps, \* BNPLGenerator._historical_timestamps
    _records_generated,     \* BaseGenerator._records_generated
    pc,                     \* per stream() invocation: where its body stands
    cursor,                 \* per stream() invocation: <<day_index, index in day>>
    delivered,              \* every record yielded so far, in delivery order
    now,                    \* the wall clock (datetime.utcnow())
    \* ---- configuration validation
    cfg_start,              \* the start_date handed to the configuration's constructor
    cfg_end,                \* the end_date handed to it
    cfg_result,             \* "pending", "ok" or the validation error raised
    cfg_generator,          \* a generator has been constructed from the configuration
    \* ---- entity registries
    reg_entities,           \* per registry: EntityRegistry.entities, in dict order
    reg_max,                \* per registry: EntityRegistry.max_entities
    reg_seed,               \* per registry: the seed it was constructed with
    reg_fake,               \* per registry: the state of its Faker's generator
    random_state,           \* the state of the process-wide random module
    faker_shared,           \* draws taken from the generator unseeded Fakers share
    reg_inserted,           \* per registry: id -> the tick at which it was inserted
    reg_tick,               \* fabrications and insertions so far
    reg_touched,            \* per registry: the id looked up last (Optional)
    reg_last,               \* the last registry call and what it returned
    \* ---- BNPL risk indicators
    economic_stress_factor, \* BNPLConfig.economic_stress_factor, in tenths
    bnpl_record,            \* the record generate_record returned last (Optional)
    bnpl_error,             \* the exception generate_record raised last, or ""
    \* ---- plugin registry and the HTTP route
    _generators,            \* PluginRegistry._generators, in dict order
    plugin_last,            \* the last registry or route call and its outcome
    \* ---- stateless utilities (holiday calendar, arrival patterns, multipliers)
    call,                   \* the last call of a stateless function and its result
    \* ---- numpy's generator and the current-day rate multiplier
    np_random_state,        \* the state of numpy's process-wide generator
    np_reseeds,             \* how often numpy has been seeded from system entropy
    rate_calls,             \* the days and results of get_current_day_rate_multiplier
    \* ---- the ecommerce generator's registries
    max_customers,          \* BaseEcommerceConfig.max_customers
    max_products,           \* BaseEcommerceConfig.max_products
    customers,              \* self.customers.entities, in dict order
    products,               \* self.products.entities
    payment_methods,        \* self.payment_methods.entities
    devices,                \* self.devices.entities
    fabricated,             \* <<registry, id>> -> how often the id was fabricated
    _known_customer_ids,    \* BaseEcommerceGenerator._known_customer_ids
    ecom_calls,             \* calls of generate_base_transaction so far
    ecom_last               \* the last such call and what it returned


streamVars == <<generator_class, max_records, start_date, end_date,
                volume_variation_enabled, base_daily_volume, config_seed,
                _historical_timestamps, _records_generated, pc, cursor,
                delivered, now>>
cfgVars == <<cfg_start, cfg_end, cfg_result, cfg_generator>>
regVars == <<reg_entities, reg_max, reg_seed, reg_fake, random_state, faker_shared,
             reg_inserted, reg_tick, reg_touched, reg_last>>
riskVars == <<economic_stress_factor, bnpl_record, bnpl_error>>
pluginVars == <<_generators, plugin_last>>
callVars == <<call>>
npVars == <<np_random_state, np_reseeds, rate_calls>>
ecomVars == <<max_customers, max_products, customers, products, payment_methods,
              devices, fabricated, _known_customer_ids, ecom_calls, ecom_last>>
vars == <<streamVars, cfgVars, regVars, riskVars, pluginVars, callVars, npVars, ecomVars>>

\* What the operations of one part of the program leave alone.
exceptStream == <<cfgVars, regVars, riskVars, pluginVars, callVars, npVars, ecomVars>>
exceptCfg == <<streamVars, regVars, riskVars, pluginVars, callVars, npVars, ecomVars>>
exceptReg == <<streamVars, cfgVars, riskVars, pluginVars, callVars, npVars, ecomVars>>
exceptRisk == <<streamVars, cfgVars, regVars, pluginVars, callVars, npVars, ecomVars>>
exceptPlugin == <<streamVars, cfgVars, regVars, riskVars, callVars, npVars, ecomVars>>
exceptCall == <<streamVars, cfgVars, regVars, riskVars, pluginVars, npVars, ecomVars>>
exceptNp == <<streamVars, cfgVars, regVars, riskVars, pluginVars, callVars, ecomVars>>
exceptEcom == <<streamVars, cfgVars, regVars, riskVars, pluginVars, callVars, npVars>>

----------------------------------------------------------------------------
(* Optional values *)
None == << >>
Some(v) == <<v>>
IsNone(x) == x = << >>
Val(x) == x[1]

Max2(a, b) == IF a >= b THEN a ELSE b
Min2(a, b) == IF a <= b THEN a ELSE b

----------------------------------------------------------------------------
(* Bounds of the model *)
MaxRecords == 2         \* max_records is drawn from None, 1..MaxRecords
MaxSpan == 1            \* historical windows span 0..MaxSpan days after day 0
MaxBaseVolume == 2      \* base_daily_volume is drawn from 1..MaxBaseVolume
MaxStreams == 2         \* stream() invocations on the one instance
MaxDelivered == 3       \* cap on deliveries when max_records is None
CfgMaxStart == 1        \* a validated start_date is drawn from None, 0..CfgMaxStart
CfgSlack == 2           \* ... and end_date from None, 0..DateRangeLimit + CfgSlack
MaxIds == 3             \* entity ids are 1..MaxIds
MaxCapacity == 2        \* max_entities is drawn from 0..MaxCapacity
MaxPeakHours == 2       \* peak-hours lists have at most this many entries
MaxInsertions == 3      \* cap on fabrications and insertions in a registry run

----------------------------------------------------------------------------
(* GeneratorConfig.validate_date_range *)
DateRangeLimit == 365

ValidateOffByOne_date_range(start, v) ==
    IF ~IsNone(start) /\ ~IsNone(v)
    THEN IF Val(v) < Val(start) THEN "end_date must be >= start_date"
         ELSE IF Val(v) - Val(start) >= DateRangeLimit
              THEN "date range cannot exceed 365 days"
              ELSE "ok"
    ELSE "ok"

validate_date_range(start, v) ==
    IF ~IsNone(start) /\ ~IsNone(v)
    THEN IF Val(v) < Val(start) THEN "end_date must be >= start_date"
         ELSE IF Val(v) - Val(start) > DateRangeLimit
              THEN "date range cannot exceed 365 days"
              ELSE "ok"
    ELSE "ok"

----------------------------------------------------------------------------
(* BNPLGenerator: the pre-computed historical timestamps *)

\* ---- calendar arithmetic: a calendar date is its proleptic Gregorian
\* ordinal, date(1, 1, 1) being day 1 as in datetime.date

IsLeap(y) == (y % 4 = 0 /\ y % 100 # 0) \/ y % 400 = 0

DaysInMonth(y, m) ==
    IF m = 2 THEN (IF IsLeap(y) THEN 29 ELSE 28)
    ELSE IF m \in {4, 6, 9, 11} THEN 30 ELSE 31

DaysBeforeYear(y) ==
    LET p == y - 1 IN p * 365 + p \div 4 - p \div 100 + p \div 400

RECURSIVE DaysBeforeMonth(_, _)
DaysBeforeMonth(y, m) ==
    IF m = 1 THEN 0 ELSE DaysBeforeMonth(y, m - 1) + DaysInMonth(y, m - 1)

\* datetime.date(y, m, d)
date(y, m, d) == DaysBeforeYear(y) + DaysBeforeMonth(y, m) + d

\* date.weekday(): Monday is 0, Sunday is 6
weekday(d) == (d + 6) % 7

\* date.year
year_of(d) ==
    CHOOSE y \in (d \div 366)..(d \div 365 + 1) :
        DaysBeforeYear(y) < d /\ d <= DaysBeforeYear(y + 1)

\* date.month
month_of(d) ==
    LET y == year_of(d)
    IN CHOOSE m \in 1..12 : date(y, m, 1) <= d /\ d < date(y, m, 1) + DaysInMonth(y, m)

\* date.day
day_of(d) == d - date(year_of(d), month_of(d), 1) + 1

SecondsPerDay == 24 * 60 * 60
datetime_combine(d, t) == d * SecondsPerDay + t[1] * 3600 + t[2] * 60 + t[3]
date_of(ts) == ts \div SecondsPerDay

\* _generate_business_hour: the hours its three branches can return
BusinessHours == (9..17) \cup (18..22) \cup ({23} \cup (0..8))

\* The <<hour, minute, second>> draws the model takes: the first and the last
\* second of a day, both of which the code can draw.
TimeSamples == {t \in {<<0, 0, 0>>, <<23, 59, 59>>} :
                    t[1] \in BusinessHours /\ t[2] \in 0..59 /\ t[3] \in 0..59}

_generate_simple_datetime(target_date, t) == datetime_combine(target_date, t)

\* sorted(timestamps)
sorted(s) == SortSeq(s, LAMBDA a, b : a < b)

\* The product of the four multipliers and the log-normal noise factor of
\* _calculate_statistical_daily_volume, in percent.  The noise factor is any
\* positive real, so the product is a draw; the samples make int() truncate to 0.
FactorSamples == {50, 100}

NoFloor_daily_volume(base_volume, factor_pct) == (base_volume * factor_pct) \div 100

_calculate_statistical_daily_volume(base_volume, factor_pct) ==
    Max2(1, (base_volume * factor_pct) \div 100)

\* The draws of one day of a volume-aware construction: <<the volume factor,
\* the <<hour, minute, second>> of each timestamp of the day>>
DayDraws(base_volume) ==
    UNION {{<<f, t>> :
               t \in [1.._calculate_statistical_daily_volume(base_volume, f) -> TimeSamples]} :
           f \in FactorSamples}

RECURSIVE VolumeAwareDays(_, _, _, _)
VolumeAwareDays(current_date, end, base_volume, draws) ==
    IF current_date > end THEN << >>
    ELSE LET daily_volume ==
                 _calculate_statistical_daily_volume(base_volume, draws[current_date][1])
         IN [k \in 1..daily_volume |->
                 _generate_simple_datetime(current_date, draws[current_date][2][k])]
            \o VolumeAwareDays(current_date + 1, end, base_volume, draws)

Unsorted_volume_aware_timestamps(start, end, base_volume, draws) ==
    VolumeAwareDays(start, end, base_volume, draws)

_generate_volume_aware_timestamps(start, end, base_volume, draws) ==
    sorted(VolumeAwareDays(start, end, base_volume, draws))

\* The triples <<i, total_records, total_days>>, total_days up to 30 and
\* total_records up to 90, for which the double i / total_records times
\* total_days falls just below the whole number i * total_days / total_records
\* (15 / 22 * 22 is 14.999999999999998).
RoundedBelow ==
    {<<15, 22, 22>>, <<30, 44, 22>>, <<45, 66, 22>>, <<60, 88, 22>>,
     <<13, 23, 23>>, <<26, 46, 23>>, <<39, 69, 23>>,
     <<15, 26, 26>>, <<30, 52, 26>>, <<45, 78, 26>>}

\* day_progress = i / total_records; int(day_progress * total_days), computed
\* in doubles: the exact floor, one less where the product is rounded below it
day_offset(i, total_records, total_days) ==
    IF <<i, total_records, total_days>> \in RoundedBelow
    THEN (i * total_days) \div total_records - 1
    ELSE (i * total_days) \div total_records

\* total_records of _generate_uniform_timestamps
uniform_total_records(start, end, mr, base_volume) ==
    IF ~IsNone(mr) THEN Val(mr) ELSE base_volume * ((end - start) + 1)

_generate_uniform_timestamps(start, end, mr, base_volume, times) ==
    LET total_days == (end - start) + 1
        total_records == uniform_total_records(start, end, mr, base_volume)
    IN sorted([k \in 1..total_records |->
                  _generate_simple_datetime(
                      start + day_offset(k - 1, total_records, total_days), times[k])])

\* BaseGenerator._group_timestamps_by_day: <<day, that day's timestamps in list
\* order>>, ascending by day
RECURSIVE SortedDays(_)
SortedDays(S) ==
    IF S = {} THEN << >>
    ELSE LET m == CHOOSE x \in S : \A y \in S : x <= y
         IN <<m>> \o SortedDays(S \ {m})

_group_timestamps_by_day(timestamps) ==
    LET days == SortedDays({date_of(timestamps[k]) : k \in 1..Len(timestamps)})
    IN [k \in 1..Len(days) |->
           <<days[k], SelectSeq(timestamps, LAMBDA t : date_of(t) = days[k])>>]

----------------------------------------------------------------------------
(* BNPLGenerator.__init__ and BaseGenerator.stream *)

GeneratorClasses == {"BNPLGenerator", "TestGenerator"}

\* BaseGenerator.name
name == generator_class

\* BNPLGenerator.use_historical_timestamps, as __init__ sets it
use_historical_timestamps == ~IsNone(start_date) /\ ~IsNone(end_date)

\* Every list _generate_historical_timestamps can return for a configuration;
\* << >> stands for an instance without the attribute.
HistoricalTimestampsOf(cls, sd, ed, mr, base_volume, variation) ==
    IF cls = "BNPLGenerator" /\ ~IsNone(sd) /\ ~IsNone(ed)
    THEN IF variation
         THEN {_generate_volume_aware_timestamps(Val(sd), Val(ed), base_volume, draws) :
                   draws \in [Val(sd)..Val(ed) -> DayDraws(base_volume)]}
         ELSE {_generate_uniform_timestamps(Val(sd), Val(ed), mr, base_volume, t) :
                   t \in [1..uniform_total_records(Val(sd), Val(ed), mr, base_volume)
                              -> TimeSamples]}
    ELSE {<< >>}

\* BaseGenerator._is_historical_mode: the attribute exists and is true
_is_historical_mode == generator_class = "BNPLGenerator" /\ use_historical_timestamps

\* The cap test at the top of both delivery loops
CapExceededOnly == ~IsNone(max_records) /\ _records_generated > Val(max_records)

AtCap == ~IsNone(max_records) /\ _records_generated >= Val(max_records)

\* The metadata stamped on a record
StampedAfterIncrement(s, timestamp) ==
    [_record_id |-> _records_generated + 1, _generator |-> name,
     _timestamp |-> timestamp, stream |-> s]

Stamped(s, timestamp) ==
    [_record_id |-> _records_generated, _generator |-> name,
     _timestamp |-> timestamp, stream |-> s]

\* generate_record, apply_noise, apply_drift, the metadata, the count and the
\* yield: no suspension point lies between them.
Yield(s, timestamp) ==
    /\ IsNone(max_records) => Len(delivered) < MaxDelivered
    /\ delivered' = Append(delivered, Stamped(s, timestamp))
    /\ _records_generated' = _records_generated + 1
    /\ pc' = [pc EXCEPT ![s] = "yielded"]

Return(s) ==
    /\ pc' = [pc EXCEPT ![s] = "done"]
    /\ UNCHANGED <<delivered, _records_generated>>

\* _stream_realtime from the top of its loop to the yield or the break
RealtimeIteration(s) ==
    /\ IF AtCap THEN Return(s) ELSE Yield(s, now)
    /\ UNCHANGED cursor

\* _stream_historical_batched from <<day_index, index in day>> (both from 1) to
\* the next yield, sleep or return
SleepAfterLastDay(s, d, i) ==
    LET daily_batches == _group_timestamps_by_day(_historical_timestamps)
    IN IF d > Len(daily_batches)
       THEN Return(s) /\ UNCHANGED cursor
       ELSE IF i <= Len(daily_batches[d][2])
       THEN IF AtCap
            THEN Return(s) /\ UNCHANGED cursor
            ELSE /\ Yield(s, daily_batches[d][2][i])
                 /\ cursor' = [cursor EXCEPT ![s] = <<d, i + 1>>]
       ELSE IF d - 1 < Len(daily_batches)
       THEN /\ pc' = [pc EXCEPT ![s] = "sleeping"]
            /\ cursor' = [cursor EXCEPT ![s] = <<d + 1, 1>>]
            /\ UNCHANGED <<delivered, _records_generated>>
       ELSE Return(s) /\ UNCHANGED cursor

HistoricalFrom(s, d, i) ==
    LET daily_batches == _group_timestamps_by_day(_historical_timestamps)
    IN IF d > Len(daily_batches)
       THEN Return(s) /\ UNCHANGED cursor
       ELSE IF i <= Len(daily_batches[d][2])
       THEN IF AtCap
            THEN Return(s) /\ UNCHANGED cursor
            ELSE /\ Yield(s, daily_batches[d][2][i])
                 /\ cursor' = [cursor EXCEPT ![s] = <<d, i + 1>>]
       ELSE IF d - 1 < Len(daily_batches) - 1
       THEN /\ pc' = [pc EXCEPT ![s] = "sleeping"]
            /\ cursor' = [cursor EXCEPT ![s] = <<d + 1, 1>>]
            /\ UNCHANGED <<delivered, _records_generated>>
       ELSE Return(s) /\ UNCHANGED cursor

\* The stream model counts days from this calendar day.
Epoch == date(2024, 1, 1)
toordinal(d) == Epoch + d

\* numpy.random.seed takes integers from 0 to 2**32 - 1; the seeds sampled
\* here stay below the upper limit, so only the lower limit can be missed.
NumpySeedOk(n) == 0 <= n

\* After the yield _stream_realtime asks get_current_day_rate_multiplier, if
\* the generator has one, for the rate of today; it seeds numpy with
\* seed + today.toordinal() when the seed is truthy.
RateMultiplierRaises ==
    /\ generator_class = "BNPLGenerator"
    /\ ~use_historical_timestamps
    /\ volume_variation_enabled
    /\ ~IsNone(config_seed) /\ Val(config_seed) # 0
    /\ ~NumpySeedOk(Val(config_seed) + toordinal(date_of(now)))

UNCHANGED_config ==
    UNCHANGED <<generator_class, max_records, start_date, end_date,
                volume_variation_enabled, base_daily_volume, config_seed,
                _historical_timestamps>>

\* A consumer asks stream() invocation s for its next record.
Request(s) ==
    /\ pc[s] \in {"created", "yielded"}
    /\ IF _is_historical_mode
       THEN IF pc[s] = "created"
            THEN IF _historical_timestamps = << >>
                 THEN Return(s) /\ UNCHANGED cursor
                 ELSE HistoricalFrom(s, 1, 1)
            ELSE HistoricalFrom(s, cursor[s][1], cursor[s][2])
       ELSE IF pc[s] = "created"
            THEN RealtimeIteration(s)
            ELSE /\ pc' = [pc EXCEPT ![s] = IF RateMultiplierRaises THEN "failed"
                                              ELSE "sleeping"]
                 /\ UNCHANGED <<delivered, _records_generated, cursor>>
    /\ UNCHANGED now
    /\ UNCHANGED_config
    /\ UNCHANGED exceptStream

\* The asyncio.sleep of invocation s ends and its body runs on.
Wake(s) ==
    /\ pc[s] = "sleeping"
    /\ now' = now + 1
    /\ IF _is_historical_mode
       THEN HistoricalFrom(s, cursor[s][1], cursor[s][2])
       ELSE RealtimeIteration(s)
    /\ UNCHANGED_config
    /\ UNCHANGED exceptStream

OptDates == {None} \cup {Some(d) : d \in 0..MaxSpan}
OptMaxRecords == {None} \cup {Some(n) : n \in 1..MaxRecords}

CfgIdle ==
    cfg_start = None /\ cfg_end = None /\ cfg_result = "idle" /\ cfg_generator = FALSE

\* No registry has been constructed; the random module is seeded from entropy.
RegIdle ==
    /\ reg_entities = << >> /\ reg_max = << >> /\ reg_seed = << >> /\ reg_fake = << >>
    /\ random_state = [src |-> <<"entropy", None>>, pos |-> 0]
    /\ faker_shared = 0
    /\ reg_inserted = << >> /\ reg_tick = 0 /\ reg_touched = << >>
    /\ reg_last = [op |-> "none"]

\* No generator has been constructed.
StreamIdle ==
    /\ generator_class = "TestGenerator" /\ max_records = None
    /\ start_date = None /\ end_date = None
    /\ volume_variation_enabled = TRUE /\ base_daily_volume = 1
    /\ config_seed = None
    /\ _historical_timestamps = << >> /\ _records_generated = 0
    /\ pc = << >> /\ cursor = << >> /\ delivered = << >>
    /\ now = (MaxSpan + 1) * SecondsPerDay

\* No BNPL record has been generated.
RiskIdle ==
    /\ economic_stress_factor = 0
    /\ bnpl_record = None
    /\ bnpl_error = ""

\* Nothing is registered and nothing has been requested.
PluginIdle ==
    /\ _generators = << >>
    /\ plugin_last = [op |-> "none"]

\* No stateless function has been called.
CallIdle == call = [op |-> "none"]

\* numpy has not been seeded and no rate multiplier has been asked for.
NpIdle ==
    /\ np_random_state = [src |-> <<"entropy", 0>>, pos |-> 0]
    /\ np_reseeds = 0
    /\ rate_calls = << >>

\* No ecommerce generator has been constructed.
EcomIdle ==
    /\ max_customers = 0 /\ max_products = 0
    /\ customers = << >> /\ products = << >>
    /\ payment_methods = << >> /\ devices = << >>
    /\ fabricated = << >>
    /\ _known_customer_ids = << >>
    /\ ecom_calls = 0
    /\ ecom_last = [op |-> "none"]

IdleExceptStream == CfgIdle /\ RegIdle /\ RiskIdle /\ PluginIdle /\ CallIdle /\ NpIdle /\ EcomIdle
IdleExceptCfg == StreamIdle /\ RegIdle /\ RiskIdle /\ PluginIdle /\ CallIdle /\ NpIdle /\ EcomIdle
IdleExceptReg == StreamIdle /\ CfgIdle /\ RiskIdle /\ PluginIdle /\ CallIdle /\ NpIdle /\ EcomIdle
IdleExceptRisk == StreamIdle /\ CfgIdle /\ RegIdle /\ PluginIdle /\ CallIdle /\ NpIdle /\ EcomIdle
IdleExceptPlugin == StreamIdle /\ CfgIdle /\ RegIdle /\ RiskIdle /\ CallIdle /\ NpIdle /\ EcomIdle
IdleExceptCall == StreamIdle /\ CfgIdle /\ RegIdle /\ RiskIdle /\ PluginIdle /\ NpIdle /\ EcomIdle
IdleExceptNp == StreamIdle /\ CfgIdle /\ RegIdle /\ RiskIdle /\ PluginIdle /\ CallIdle /\ EcomIdle
IdleExceptEcom == StreamIdle /\ CfgIdle /\ RegIdle /\ RiskIdle /\ PluginIdle /\ CallIdle /\ NpIdle

Init ==
    /\ generator_class \in GeneratorClasses
    /\ max_records \in OptMaxRecords
    /\ start_date \in OptDates
    /\ end_date \in OptDates
    /\ validate_date_range(start_date, end_date) = "ok"
    /\ volume_variation_enabled \in BOOLEAN
    /\ base_daily_volume \in 1..MaxBaseVolume
    /\ config_seed = None
    \* the test generator is given the defaults of GeneratorConfig
    /\ generator_class = "TestGenerator"
           => /\ start_date = None /\ end_date = None
              /\ volume_variation_enabled /\ base_daily_volume = 1
    /\ _historical_timestamps \in
           HistoricalTimestampsOf(generator_class, start_date, end_date, max_records,
                                  base_daily_volume, volume_variation_enabled)
    /\ _records_generated = 0
    /\ pc = [s \in 1..MaxStreams |-> "created"]
    /\ cursor = [s \in 1..MaxStreams |-> <<1, 1>>]
    /\ delivered = << >>
    /\ now = (MaxSpan + 1) * SecondsPerDay
    /\ IdleExceptStream

Next ==
    \/ \E s \in DOMAIN pc : Request(s)
    \/ \E s \in DOMAIN pc : Wake(s)

Spec == Init /\ [][Next]_vars

----------------------------------------------------------------------------
(* Claims about the stream *)

\* Only invocation s of stream() has been started on the instance.
OnlyStream(s) == \A t \in DOMAIN pc \ {s} : pc[t] = "created"

IdsInOrder ==
    \A k \in 1..Len(delivered) :
        delivered[k]._record_id = k - 1 /\ delivered[k]._generator = name

\* C1 as stated: one stream() of an instance configured with max_records = N,
\* in either delivery mode, has yielded exactly N records with _record_id
\* 0..N-1 in order, each tagged with the generator's name, when it ends.
C1_AsStated ==
    \A s \in DOMAIN pc :
        (OnlyStream(s) /\ pc[s] = "done" /\ ~IsNone(max_records))
            => (Len(delivered) = Val(max_records) /\ IdsInOrder)

\* The number of records one stream() yields under max_records = N: N in
\* real-time delivery, and in historical delivery no more than the timestamps
\* pre-computed for the window.
ExpectedCount ==
    IF _is_historical_mode
    THEN Min2(Val(max_records), Len(_historical_timestamps))
    ELSE Val(max_records)

\* C1 amended: one stream() of an instance configured with max_records = N
\* yields records with _record_id 0,1,... in order, each tagged with the
\* generator's name, never more than min(N, T) of them in historical delivery
\* (T pre-computed timestamps) and N in real-time delivery, and has yielded
\* exactly that many when it ends.
C1_CountAtEnd ==
    \A s \in DOMAIN pc :
        (OnlyStream(s) /\ ~IsNone(max_records))
            => /\ IdsInOrder
               /\ Len(delivered) <= ExpectedCount
               /\ pc[s] = "done" => Len(delivered) = ExpectedCount

\* A historical stream that ended after T < N records, and nothing else ran.
C1_Witness ==
    \E s \in DOMAIN pc :
        /\ OnlyStream(s) /\ pc[s] = "done" /\ ~IsNone(max_records)
        /\ _is_historical_mode /\ volume_variation_enabled
        /\ Len(delivered) = Len(_historical_timestamps)
        /\ Len(delivered) < Val(max_records)

\* C2: the k-th record delivered by an instance has _record_id k-1, the running
\* count equals the number of records delivered, and no more than max_records
\* are delivered, however many stream() invocations run and interleave.
C2_ConsecutiveIds ==
    /\ \A k \in 1..Len(delivered) : delivered[k]._record_id = k - 1
    /\ _records_generated = Len(delivered)
    /\ ~IsNone(max_records) => Len(delivered) <= Val(max_records)

\* Two invocations interleaved: one delivered, then the other, then the first.
C2_Witness ==
    \E i, j, k \in 1..Len(delivered) :
        /\ i < j /\ j < k
        /\ delivered[i].stream = delivered[k].stream
        /\ delivered[i].stream # delivered[j].stream

\* C3: in historical mode every delivered _timestamp is dated within
\* start_date..end_date, and the timestamps one stream() delivers never decrease.
C3_WindowAndOrder ==
    _is_historical_mode =>
        /\ \A k \in 1..Len(delivered) :
               /\ Val(start_date) <= date_of(delivered[k]._timestamp)
               /\ date_of(delivered[k]._timestamp) <= Val(end_date)
        /\ \A j, k \in 1..Len(delivered) :
               (j < k /\ delivered[j].stream = delivered[k].stream)
                   => delivered[j]._timestamp <= delivered[k]._timestamp

\* One stream() delivered two different times of one day and then a later day,
\* with volume variation on.
C3_Witness ==
    /\ _is_historical_mode /\ volume_variation_enabled
    /\ \E i, j, k \in 1..Len(delivered) :
           /\ i < j /\ j < k
           /\ delivered[i].stream = delivered[j].stream
           /\ delivered[j].stream = delivered[k].stream
           /\ delivered[i]._timestamp < delivered[j]._timestamp
           /\ date_of(delivered[i]._timestamp) = date_of(delivered[j]._timestamp)
           /\ date_of(delivered[j]._timestamp) < date_of(delivered[k]._timestamp)

----------------------------------------------------------------------------
(* Configuration validation: GeneratorConfig(start_date=..., end_date=...)
   and the construction of a generator from the validated configuration *)

CfgStarts == {None} \cup {Some(d) : d \in 0..CfgMaxStart}
CfgEnds == {None} \cup {Some(d) : d \in 0..(DateRangeLimit + CfgSlack)}

InitConfig ==
    /\ cfg_start \in CfgStarts
    /\ cfg_end \in CfgEnds
    /\ cfg_result = "pending"
    /\ cfg_generator = FALSE
    /\ IdleExceptCfg

\* The configuration's constructor runs the validators.
ConstructConfig ==
    /\ cfg_result = "pending"
    /\ cfg_result' = validate_date_range(cfg_start, cfg_end)
    /\ UNCHANGED <<cfg_start, cfg_end, cfg_generator>>
    /\ UNCHANGED exceptCfg

\* BNPLGenerator.__init__ on a configuration instance; it builds a BNPLConfig
\* from the instance's fields, which validates them again.
ConstructGenerator ==
    /\ cfg_result = "ok"
    /\ ~cfg_generator
    /\ cfg_generator' = (validate_date_range(cfg_start, cfg_end) = "ok")
    /\ UNCHANGED <<cfg_start, cfg_end, cfg_result>>
    /\ UNCHANGED exceptCfg

NextConfig == ConstructConfig \/ ConstructGenerator

SpecConfig == InitConfig /\ [][NextConfig]_vars

----------------------------------------------------------------------------
(* Entity registries (core/entities.py).  A random generator is a stream:
   its state is the source it was seeded from and the number of draws taken,
   and the value of a draw is determined by exactly those two, so two draws
   agree when they are the same position of the same stream. *)

DefaultMaxEntities == 100000

Ids == 1..MaxIds
SeedSamples == {None, Some(0), Some(42)}

\* Python truthiness of an Optional[int]: None and 0 are falsy.
Truthy(seed) == ~IsNone(seed) /\ Val(seed) # 0

Draw(stream, offset) == <<stream.src, stream.pos + offset>>
Advance(stream, n) == [stream EXCEPT !.pos = @ + n]

\* The generator an unseeded Faker draws from is shared by all of them.
SharedFaker == [src |-> <<"Faker", None>>, pos |-> faker_shared]
IsShared(fake) == IsNone(fake.src[2])
FakerOf(r) == IF IsShared(reg_fake[r]) THEN SharedFaker ELSE reg_fake[r]

FakerDraws == 5     \* date_between, email, date_of_birth, state_abbr, zipcode
RandomDraws == 6    \* income, employment, credit, stability, channel, verification

\* CustomerRegistry._generate_entity, drawing from the Faker stream fake and
\* the random module's stream rand.
_generate_entity(customer_id, fake, rand) ==
    [customer_id        |-> customer_id,
     email              |-> Draw(fake, 1),
     dob                |-> Draw(fake, 2),
     signup_date        |-> Draw(fake, 0),
     income_bracket     |-> Draw(rand, 0),
     employment_status  |-> Draw(rand, 1),
     credit_score_range |-> Draw(rand, 2),
     country            |-> "US",
     state              |-> Draw(fake, 3),
     zipcode            |-> Draw(fake, 4),
     address_stability  |-> Draw(rand, 3),
     signup_channel     |-> Draw(rand, 4),
     verification_level |-> Draw(rand, 5)]

\* Entity data handed to register() by a caller.
CallerEntity(entity_id) ==
    [a \in DOMAIN _generate_entity(entity_id, SharedFaker, random_state) |->
        IF a = "customer_id" THEN entity_id ELSE "caller"]

\* ---- a dict as the sequence of its items in iteration order
DictKeys(d) == {d[k].id : k \in 1..Len(d)}
DictGet(d, id) == d[CHOOSE k \in 1..Len(d) : d[k].id = id].data
DictDel(d, id) == SelectSeq(d, LAMBDA e : e.id # id)
DictAppend(d, id, data) == Append(d, [id |-> id, data |-> data])

\* d[id] = data: an existing key keeps its position, a new key goes last
DictSet(d, id, data) ==
    IF id \in DictKeys(d)
    THEN [k \in 1..Len(d) |-> IF d[k].id = id THEN [id |-> id, data |-> data] ELSE d[k]]
    ELSE Append(d, [id |-> id, data |-> data])

EvictNewest_id(d) == d[Len(d)].id

\* next(iter(self.entities))
oldest_id(d) == d[1].id

RegisterWhenOver(d, max_entities, entity_id, entity_data) ==
    IF Len(d) > max_entities
    THEN IF Len(d) = 0
         THEN [entities |-> d, error |-> "StopIteration", evicted |-> None]
         ELSE [entities |-> DictSet(DictDel(d, oldest_id(d)), entity_id, entity_data),
               error |-> "", evicted |-> Some(oldest_id(d))]
    ELSE [entities |-> DictSet(d, entity_id, entity_data), error |-> "", evicted |-> None]

\* EntityRegistry.register on the dict d; next() on an empty iterator raises.
register(d, max_entities, entity_id, entity_data) ==
    IF Len(d) >= max_entities
    THEN IF Len(d) = 0
         THEN [entities |-> d, error |-> "StopIteration", evicted |-> None]
         ELSE [entities |-> DictSet(DictDel(d, oldest_id(d)), entity_id, entity_data),
               error |-> "", evicted |-> Some(oldest_id(d))]
    ELSE [entities |-> DictSet(d, entity_id, entity_data), error |-> "", evicted |-> None]

\* EntityRegistry.count
count(r) == Len(reg_entities[r])

\* The insertion ticks after a register() call: an evicted key loses its tick,
\* a key absent at the assignment gets the current one.
InsertedAfter(r, res, entity_id) ==
    IF res.error # "" THEN reg_inserted[r]
    ELSE LET kept == DOMAIN reg_inserted[r]
                        \ (IF IsNone(res.evicted) THEN {} ELSE {Val(res.evicted)})
         IN [i \in kept \cup {entity_id} |->
                IF i \in kept THEN reg_inserted[r][i] ELSE reg_tick + 1]

\* EntityRegistry.__init__ for registry number r
Construct(r, max_entities, seed) ==
    /\ r = Len(reg_entities) + 1
    /\ reg_entities' = Append(reg_entities, << >>)
    /\ reg_max' = Append(reg_max, max_entities)
    /\ reg_seed' = Append(reg_seed, seed)
    /\ reg_fake' = Append(reg_fake, IF Truthy(seed)
                                    THEN [src |-> <<"Faker", seed>>, pos |-> 0]
                                    ELSE [src |-> <<"Faker", None>>, pos |-> 0])
    /\ random_state' = IF Truthy(seed)
                       THEN [src |-> <<"random", seed>>, pos |-> 0]
                       ELSE random_state
    /\ reg_inserted' = Append(reg_inserted, << >>)
    /\ reg_touched' = Append(reg_touched, None)
    /\ reg_last' = [op |-> "construct", r |-> r]
    /\ UNCHANGED <<faker_shared, reg_tick>>
    /\ UNCHANGED exceptReg

\* EntityRegistry.get
Get(r, entity_id) ==
    /\ reg_last' = [op |-> "get", r |-> r, id |-> entity_id,
                    result |-> IF entity_id \in DictKeys(reg_entities[r])
                               THEN Some(DictGet(reg_entities[r], entity_id)) ELSE None]
    /\ reg_touched' = [reg_touched EXCEPT ![r] = Some(entity_id)]
    /\ UNCHANGED <<reg_entities, reg_max, reg_seed, reg_fake, random_state, faker_shared,
                   reg_inserted, reg_tick>>
    /\ UNCHANGED exceptReg

\* EntityRegistry.exists
Exists(r, entity_id) ==
    /\ reg_last' = [op |-> "exists", r |-> r, id |-> entity_id,
                    result |-> entity_id \in DictKeys(reg_entities[r])]
    /\ reg_touched' = [reg_touched EXCEPT ![r] = Some(entity_id)]
    /\ UNCHANGED <<reg_entities, reg_max, reg_seed, reg_fake, random_state, faker_shared,
                   reg_inserted, reg_tick>>
    /\ UNCHANGED exceptReg

\* EntityRegistry.register called directly
Register(r, entity_id) ==
    /\ reg_tick < MaxInsertions
    /\ LET res == register(reg_entities[r], reg_max[r], entity_id, CallerEntity(entity_id))
       IN /\ reg_entities' = [reg_entities EXCEPT ![r] = res.entities]
          /\ reg_inserted' = [reg_inserted EXCEPT ![r] = InsertedAfter(r, res, entity_id)]
          /\ reg_last' = [op |-> "register", r |-> r, id |-> entity_id,
                          error |-> res.error, evicted |-> res.evicted]
    /\ reg_tick' = reg_tick + 1
    /\ UNCHANGED <<reg_max, reg_seed, reg_fake, random_state, faker_shared, reg_touched>>
    /\ UNCHANGED exceptReg

\* EntityRegistry.get_or_create on a CustomerRegistry
GetOrCreate(r, entity_id) ==
    IF entity_id \in DictKeys(reg_entities[r])
    THEN /\ reg_last' = [op |-> "get_or_create", r |-> r, id |-> entity_id, created |-> FALSE,
                         result |-> Some(DictGet(reg_entities[r], entity_id)),
                         error |-> "", evicted |-> None]
         /\ reg_touched' = [reg_touched EXCEPT ![r] = Some(entity_id)]
         /\ UNCHANGED <<reg_entities, reg_max, reg_seed, reg_fake, random_state, faker_shared,
                        reg_inserted, reg_tick>>
         /\ UNCHANGED exceptReg
    ELSE /\ reg_tick < MaxInsertions
         /\ LET entity_data == _generate_entity(entity_id, FakerOf(r), random_state)
                res == register(reg_entities[r], reg_max[r], entity_id, entity_data)
            IN /\ reg_entities' = [reg_entities EXCEPT ![r] = res.entities]
               /\ reg_inserted' = [reg_inserted EXCEPT ![r] = InsertedAfter(r, res, entity_id)]
               /\ reg_last' = [op |-> "get_or_create", r |-> r, id |-> entity_id,
                               created |-> res.error = "",
                               result |-> IF res.error = "" THEN Some(entity_data) ELSE None,
                               error |-> res.error, evicted |-> res.evicted]
         /\ random_state' = Advance(random_state, RandomDraws)
         /\ IF IsShared(reg_fake[r])
            THEN /\ faker_shared' = faker_shared + FakerDraws
                 /\ UNCHANGED reg_fake
            ELSE /\ reg_fake' = [reg_fake EXCEPT ![r] = Advance(@, FakerDraws)]
                 /\ UNCHANGED faker_shared
         /\ reg_tick' = reg_tick + 1
         /\ UNCHANGED <<reg_max, reg_seed, reg_touched>>
         /\ UNCHANGED exceptReg

\* One registry, constructed with a capacity and a seed.
InitEntity ==
    /\ \E max_entities \in 0..MaxCapacity, seed \in SeedSamples :
        /\ reg_entities = << << >> >>
        /\ reg_max = <<max_entities>>
        /\ reg_seed = <<seed>>
        /\ reg_fake = <<IF Truthy(seed) THEN [src |-> <<"Faker", seed>>, pos |-> 0]
                        ELSE [src |-> <<"Faker", None>>, pos |-> 0]>>
        /\ random_state = IF Truthy(seed) THEN [src |-> <<"random", seed>>, pos |-> 0]
                          ELSE [src |-> <<"entropy", None>>, pos |-> 0]
    /\ faker_shared = 0
    /\ reg_inserted = << << >> >>
    /\ reg_tick = 0
    /\ reg_touched = <<None>>
    /\ reg_last = [op |-> "construct", r |-> 1]
    /\ IdleExceptReg

NextEntity ==
    \/ \E entity_id \in Ids : Get(1, entity_id)
    \/ \E entity_id \in Ids : Exists(1, entity_id)
    \/ \E entity_id \in Ids : Register(1, entity_id)
    \/ \E entity_id \in Ids : GetOrCreate(1, entity_id)

SpecEntity == InitEntity /\ [][NextEntity]_vars

\* C5: a registry never holds more entries than its max_entities, however
\* many distinct ids are passed to get_or_create.
C5_CountWithinCapacity ==
    \A r \in DOMAIN reg_entities : count(r) <= reg_max[r]

\* More ids were created than the registry can hold and it is exactly full.
C5_Witness ==
    /\ reg_last.op = "get_or_create" /\ reg_last.created
    /\ ~IsNone(reg_last.evicted)
    /\ reg_tick > reg_max[1]
    /\ count(1) = reg_max[1]

----------------------------------------------------------------------------
(* Customer registries constructed and used in any order *)

MaxRegistries == 2

InitSeed == RegIdle /\ IdleExceptReg

NextSeed ==
    \/ /\ Len(reg_entities) < MaxRegistries
       /\ \E seed \in SeedSamples :
            Construct(Len(reg_entities) + 1, DefaultMaxEntities, seed)
    \/ \E r \in DOMAIN reg_entities, entity_id \in Ids : GetOrCreate(r, entity_id)

SpecSeed == InitSeed /\ [][NextSeed]_vars

\* C7: two customer registries constructed with the same integer seed hold
\* identical attribute values for every id both have fabricated.
C7_AsStated ==
    \A r1, r2 \in DOMAIN reg_entities :
        (~IsNone(reg_seed[r1]) /\ reg_seed[r1] = reg_seed[r2])
            => \A entity_id \in DictKeys(reg_entities[r1]) \cap DictKeys(reg_entities[r2]) :
                  DictGet(reg_entities[r1], entity_id) = DictGet(reg_entities[r2], entity_id)

----------------------------------------------------------------------------
(* BNPL risk indicators (generators/ecommerce/bnpl.py).  Risk factors and
   weights are in tenths, economic_stress_factor is in tenths, and a risk
   score is in units of 1/RiskScale, which makes the arithmetic exact. *)

RiskScale == 100 * 50

CreditScoreRanges == {"excellent", "good", "fair", "poor"}
VerificationLevels == {"verified", "partial", "unverified"}
IncomeBrackets == {"<25k", "25k-50k", "50k-75k", "75k-100k", "100k+"}
RiskCategories == {"low", "medium", "high"}
RiskScenarios == {"low_risk_purchase", "impulse_purchase", "credit_stretched",
                  "high_risk_behavior"}

\* The entities a record is generated from, as far as the risk fields read them.
Customers == [credit_score_range : CreditScoreRanges,
              verification_level : VerificationLevels,
              income_bracket : IncomeBrackets]
\* ProductRegistry.category_price_ranges; a price is drawn uniformly between
\* the two ends of its category's range
category_price_ranges ==
    [electronics |-> <<30, 400>>, clothing |-> <<20, 150>>, home |-> <<25, 300>>,
     beauty |-> <<15, 80>>, sports |-> <<25, 200>>]

PricesIn(range) == {range[1], range[2]} \cup {a \in {99, 100} : range[1] <= a /\ a <= range[2]}

\* the prices sampled: both ends of every range and the two sides of 100
PriceSamples ==
    UNION {PricesIn(category_price_ranges[c]) : c \in DOMAIN category_price_ranges}
Products == [price : PriceSamples, risk_category : RiskCategories]
Devices == [is_trusted : BOOLEAN]

\* economic_stress_factor is an unconstrained float; these are tenths.
EsfSamples == {-60, 0, 5, 10, 60}

credit_risk(customer) ==
    CASE customer.credit_score_range = "excellent" -> 1
      [] customer.credit_score_range = "good" -> 3
      [] customer.credit_score_range = "fair" -> 6
      [] customer.credit_score_range = "poor" -> 9
      [] OTHER -> 5

verification_risk(customer) ==
    CASE customer.verification_level = "verified" -> 1
      [] customer.verification_level = "partial" -> 4
      [] customer.verification_level = "unverified" -> 8
      [] OTHER -> 5

income_risk(customer) ==
    CASE customer.income_bracket = "100k+" -> 1
      [] customer.income_bracket = "75k-100k" -> 2
      [] customer.income_bracket = "50k-75k" -> 3
      [] customer.income_bracket = "25k-50k" -> 6
      [] customer.income_bracket = "<25k" -> 8
      [] OTHER -> 5

device_risk(device) == IF ~device.is_trusted THEN 7 ELSE 2

product_risk(product) ==
    CASE product.risk_category = "low" -> 1
      [] product.risk_category = "medium" -> 3
      [] product.risk_category = "high" -> 6
      [] OTHER -> 3

scenario_risk(scenario) ==
    CASE scenario = "low_risk_purchase" -> 1
      [] scenario = "impulse_purchase" -> 4
      [] scenario = "credit_stretched" -> 7
      [] scenario = "high_risk_behavior" -> 9
      [] OTHER -> 3

\* sum(risk * weight), in hundredths
WeightedScore(customer, product, device, scenario) ==
    credit_risk(customer) * 3 + verification_risk(customer) * 2
        + income_risk(customer) * 2 + device_risk(device) * 1
        + product_risk(product) * 1 + scenario_risk(scenario) * 1

\* score *= (1 + esf * 0.2); return min(score, 1.0)
_calculate_risk_score(customer, product, device, scenario, esf) ==
    Min2(WeightedScore(customer, product, device, scenario) * (50 + esf), RiskScale)

_risk_level_from_score(risk_score) ==
    IF risk_score * 10 < 3 * RiskScale THEN "low"
    ELSE IF risk_score * 10 < 6 * RiskScale THEN "medium"
    ELSE IF risk_score * 10 < 8 * RiskScale THEN "high"
    ELSE "very_high"

LongPlansFrom100(amount, pick) ==
    IF amount < 100 THEN 4
    ELSE <<6, 12>>[pick]

\* pick is the position random.choice draws
_select_installment_count(amount, pick) ==
    IF amount < 100 THEN 4
    ELSE IF amount < 500 THEN <<4, 6>>[pick]
    ELSE IF amount < 1000 THEN <<6, 12>>[pick]
    ELSE <<12, 24>>[pick]

InstallmentPicks(amount) == IF amount < 100 THEN {1} ELSE {1, 2}

\* percentile = 0.05 + risk_score * 0.90 is raised to the power 1.5; a
\* negative float raised to a fractional power is a complex number, which
\* the normal sampler does not take.
PercentileNegative(risk_score) == 5 * RiskScale + 90 * risk_score < 0

\* The weight of period i (0-based) of num_periods, times 100 * (num_periods - 1)
\* in the bell-shaped branch and times 100 in the others.
_create_universal_risk_pattern(num_periods) ==
    IF num_periods <= 0 THEN <<100>>
    ELSE IF num_periods = 1 THEN <<100>>
    ELSE IF num_periods = 2 THEN <<30, 70>>
    ELSE IF num_periods <= 4 THEN SubSeq(<<20, 40, 30, 10>>, 1, num_periods)
    ELSE [p \in 1..num_periods |->
            LET i == p - 1
                n == num_periods - 1
            IN Max2(5 * n, IF 2 * i <= n THEN 10 * n + 160 * i
                           ELSE 170 * n - 160 * i)]

RECURSIVE SumSeq(_)
SumSeq(s) == IF s = << >> THEN 0 ELSE Head(s) + SumSeq(Tail(s))

\* The periods random.choices can return: those of positive final weight.
\* risk_multiplier = 0.5 + risk_score * 1.5, times 2 * RiskScale.
PossiblePeriods(risk_score, installment_count) ==
    LET base_pattern == _create_universal_risk_pattern(installment_count)
        risk_multiplier == RiskScale + 3 * risk_score
        scaled_weights == [p \in 1..installment_count |-> base_pattern[p] * risk_multiplier]
    IN IF SumSeq(scaled_weights) <= 0
       THEN 1..installment_count
       ELSE {p \in 1..installment_count : scaled_weights[p] > 0}

_days_to_missed_payment(chosen_period) ==
    LET days == chosen_period * 14
    IN IF days < 14 THEN 14 ELSE days

MissedPaymentAlwaysSet(will_default, chosen_period) ==
    Some(_days_to_missed_payment(chosen_period))

\* transaction["days_to_first_missed_payment"] in _add_risk_indicators
days_to_first_missed_payment(will_default, chosen_period) ==
    IF will_default THEN Some(_days_to_missed_payment(chosen_period)) ELSE None

\* _add_risk_indicators: the fields it adds to the transaction
RiskIndicators(customer, product, device, scenario, pick, will_default, chosen_period) ==
    LET risk_score == _calculate_risk_score(customer, product, device, scenario,
                                            economic_stress_factor)
    IN [risk_scenario |-> scenario,
        risk_score |-> risk_score,
        risk_level |-> _risk_level_from_score(risk_score),
        amount |-> product.price,
        product_price |-> product.price,
        installment_count |-> _select_installment_count(product.price, pick),
        economic_stress_factor |-> economic_stress_factor,
        will_default |-> will_default,
        days_to_first_missed_payment |-> days_to_first_missed_payment(will_default, chosen_period)]

\* BNPLGenerator.generate_record, awaited by the stream loop once the record
\* before it has been yielded; an exception it raised has ended the stream.
generate_record ==
    /\ IsNone(bnpl_record)
    /\ bnpl_error = ""
    /\ \E customer \in Customers, product \in Products, device \in Devices,
          scenario \in RiskScenarios :
         LET risk_score == _calculate_risk_score(customer, product, device, scenario,
                                                 economic_stress_factor)
         IN IF PercentileNegative(risk_score)
            THEN /\ bnpl_error' = "TypeError"
                 /\ bnpl_record' = None
            ELSE /\ bnpl_error' = ""
                 /\ \E pick \in InstallmentPicks(product.price), will_default \in BOOLEAN :
                      \E chosen_period \in
                            IF will_default
                            THEN PossiblePeriods(risk_score,
                                     _select_installment_count(product.price, pick))
                            ELSE {1} :
                         bnpl_record' = Some(RiskIndicators(customer, product, device, scenario,
                                                            pick, will_default, chosen_period))
    /\ UNCHANGED economic_stress_factor
    /\ UNCHANGED exceptRisk

InitRisk ==
    /\ economic_stress_factor \in EsfSamples
    /\ bnpl_record = None
    /\ bnpl_error = ""
    /\ IdleExceptRisk

\* The stream loop yields the record to its consumer.
YieldRecord ==
    /\ ~IsNone(bnpl_record)
    /\ bnpl_record' = None
    /\ UNCHANGED <<economic_stress_factor, bnpl_error>>
    /\ UNCHANGED exceptRisk

NextRisk == generate_record \/ YieldRecord

SpecRisk == InitRisk /\ [][NextRisk]_vars

\* C8: in every record generate_record returns, will_default is true exactly
\* when days_to_first_missed_payment is an integer >= 14, and the field is
\* null when will_default is false.
C8_DefaultIffMissedPayment ==
    ~IsNone(bnpl_record) =>
        LET record == Val(bnpl_record)
            days == record.days_to_first_missed_payment
        IN /\ record.will_default <=> (~IsNone(days) /\ Val(days) >= 14)
           /\ ~record.will_default => IsNone(days)

\* A defaulting record whose first missed payment falls in the first period.
C8_Witness ==
    /\ ~IsNone(bnpl_record)
    /\ Val(bnpl_record).will_default
    /\ Val(bnpl_record).days_to_first_missed_payment = Some(14)

\* C9: in every record, risk_score lies in [0, 1] and risk_level is the
\* bucket of that risk_score.
C9_AsStated ==
    ~IsNone(bnpl_record) =>
        LET record == Val(bnpl_record)
        IN /\ 0 <= record.risk_score /\ record.risk_score <= RiskScale
           /\ record.risk_level =
                (IF record.risk_score * 10 < 3 * RiskScale THEN "low"
                 ELSE IF record.risk_score * 10 < 6 * RiskScale THEN "medium"
                 ELSE IF record.risk_score * 10 < 8 * RiskScale THEN "high"
                 ELSE "very_high")

----------------------------------------------------------------------------
(* The plugin registry (core/registry.py) and POST /stream/{generator_name}
   (api/routes.py) *)

GeneratorNames == {"bnpl", "test", "ghost"}
PluginClasses == {"BNPLGenerator", "TestGenerator", "NotAGenerator"}

\* issubclass(cls, BaseGenerator)
IsGeneratorClass(cls) == cls \in GeneratorClasses

\* PluginRegistry.get_generator: the class, or None
get_generator(catalog, generator_name) ==
    IF \E k \in 1..Len(catalog) : catalog[k].id = generator_name
    THEN Some(DictGet(catalog, generator_name))
    ELSE None

\* PluginRegistry.list_generators
list_generators(catalog) == [k \in 1..Len(catalog) |-> catalog[k].id]

CreateAnonymousError(catalog, generator_name) ==
    IF IsNone(get_generator(catalog, generator_name))
    THEN [error |-> <<"Unknown generator">>, generator |-> None]
    ELSE [error |-> << >>, generator |-> get_generator(catalog, generator_name)]

\* PluginRegistry.create_generator with a default configuration: the
\* ValueError's message, or the class of the generator constructed.
create_generator(catalog, generator_name) ==
    IF IsNone(get_generator(catalog, generator_name))
    THEN [error |-> <<"Unknown generator: ", generator_name>>, generator |-> None]
    ELSE [error |-> << >>, generator |-> get_generator(catalog, generator_name)]

\* PluginRegistry.register, also what the register_generator decorator calls
RegisterGenerator(generator_name, cls) ==
    /\ IF ~IsGeneratorClass(cls)
       THEN /\ plugin_last' = [op |-> "register", name |-> generator_name, cls |-> cls,
                               error |-> <<"must inherit from BaseGenerator", cls>>]
            /\ UNCHANGED _generators
       ELSE /\ plugin_last' = [op |-> "register", name |-> generator_name, cls |-> cls,
                               error |-> << >>]
            /\ _generators' = DictSet(_generators, generator_name, cls)
    /\ UNCHANGED exceptPlugin

\* PluginRegistry.create_generator called directly
CreateGenerator(generator_name) ==
    /\ LET res == create_generator(_generators, generator_name)
       IN plugin_last' = [op |-> "create_generator", name |-> generator_name,
                          error |-> res.error, generator |-> res.generator]
    /\ UNCHANGED _generators
    /\ UNCHANGED exceptPlugin

\* stream_data: a ValueError becomes HTTP 404 with its message as the detail,
\* otherwise a streaming response is returned; no record has been produced yet.
StreamData(generator_name) ==
    /\ LET res == create_generator(_generators, generator_name)
       IN plugin_last' =
            IF res.error # << >>
            THEN [op |-> "stream_data", name |-> generator_name, status |-> 404,
                  detail |-> res.error, generator |-> None, records_streamed |-> 0]
            ELSE [op |-> "stream_data", name |-> generator_name, status |-> 200,
                  detail |-> << >>, generator |-> res.generator, records_streamed |-> 0]
    /\ UNCHANGED _generators
    /\ UNCHANGED exceptPlugin

\* GET /generators
ListGenerators ==
    /\ plugin_last' = [op |-> "list_generators", names |-> list_generators(_generators)]
    /\ UNCHANGED _generators
    /\ UNCHANGED exceptPlugin

InitPlugin == PluginIdle /\ IdleExceptPlugin

NextPlugin ==
    \/ \E generator_name \in GeneratorNames, cls \in PluginClasses :
          RegisterGenerator(generator_name, cls)
    \/ \E generator_name \in GeneratorNames : CreateGenerator(generator_name)
    \/ \E generator_name \in GeneratorNames : StreamData(generator_name)
    \/ ListGenerators

SpecPlugin == InitPlugin /\ [][NextPlugin]_vars

\* C10: creating a generator under a name that is not registered fails with
\* an error naming the requested generator and leaves the catalog unchanged;
\* over HTTP the answer is 404 carrying that message, with no record streamed.
C10_UnknownGenerator ==
    [][(/\ plugin_last'.op \in {"create_generator", "stream_data"}
        /\ plugin_last'.name \notin DictKeys(_generators))
       => /\ _generators' = _generators
          /\ IsNone(plugin_last'.generator)
          /\ plugin_last'.op = "create_generator"
                => /\ plugin_last'.error # << >>
                   /\ \E k \in 1..Len(plugin_last'.error) :
                         plugin_last'.error[k] = plugin_last'.name
          /\ plugin_last'.op = "stream_data"
                => /\ plugin_last'.status = 404
                   /\ \E k \in 1..Len(plugin_last'.detail) :
                         plugin_last'.detail[k] = plugin_last'.name
                   /\ plugin_last'.records_streamed = 0]_vars

\* An unknown name was requested over HTTP while other names are registered.
C10_Witness ==
    /\ plugin_last.op = "stream_data"
    /\ plugin_last.status = 404
    /\ plugin_last.name \notin DictKeys(_generators)
    /\ _generators # << >>

\* C11: register either fails, exactly when the implementation is not a
\* generator, and leaves the catalog unchanged, or maps the name to the
\* implementation and leaves every other name's registration unchanged; the
\* listing always holds each registered name once.
C11_RegisterFrame ==
    /\ [](\A j, k \in 1..Len(_generators) :
            list_generators(_generators)[j] = list_generators(_generators)[k] => j = k)
    /\ [][plugin_last'.op = "register"
          => IF plugin_last'.error # << >>
             THEN /\ plugin_last'.cls \notin GeneratorClasses
                  /\ _generators' = _generators
             ELSE /\ plugin_last'.cls \in GeneratorClasses
                  /\ get_generator(_generators', plugin_last'.name) = Some(plugin_last'.cls)
                  /\ \A other \in GeneratorNames \ {plugin_last'.name} :
                        get_generator(_generators', other) = get_generator(_generators, other)
                  /\ DictKeys(_generators') = DictKeys(_generators) \cup {plugin_last'.name}]_vars

\* A name registered before was registered again while another name, registered
\* after it, is in the catalog.
C11_Witness ==
    /\ plugin_last.op = "register"
    /\ plugin_last.error = << >>
    /\ Len(_generators) >= 2
    /\ _generators[1].id = plugin_last.name
    /\ _generators[1].data = plugin_last.cls

----------------------------------------------------------------------------
(* The holiday calendar (core/holidays.py).  A date is its proleptic
   Gregorian ordinal, date(1, 1, 1) being day 1 as in datetime.date. *)

NthWeekdayWeekEarly(year, month, wd, n) ==
    LET first_day == date(year, month, 1)
        days_until_weekday == (wd - weekday(first_day)) % 7
    IN first_day + days_until_weekday + 7 * (n - 2)

\* weeks are added to the first occurrence; a result past the month falls back a week
_get_nth_weekday(year, month, wd, n) ==
    LET first_day == date(year, month, 1)
        days_until_weekday == (wd - weekday(first_day)) % 7
        first_occurrence == first_day + days_until_weekday
        target_date == first_occurrence + 7 * (n - 1)
    IN IF month_of(target_date) # month
       THEN first_occurrence + 7 * (n - 2)
       ELSE target_date

\* The holiday names in the order the dict is filled.
HolidayNames ==
    <<"new_years_day", "valentines_day", "independence_day", "halloween",
      "christmas_eve", "christmas_day", "new_years_eve", "mothers_day",
      "fathers_day", "labor_day", "thanksgiving", "black_friday", "cyber_monday">>

get_major_holidays(year) ==
    LET thanksgiving == _get_nth_weekday(year, 11, 3, 4)
    IN [new_years_day    |-> date(year, 1, 1),
        valentines_day   |-> date(year, 2, 14),
        independence_day |-> date(year, 7, 4),
        halloween        |-> date(year, 10, 31),
        christmas_eve    |-> date(year, 12, 24),
        christmas_day    |-> date(year, 12, 25),
        new_years_eve    |-> date(year, 12, 31),
        mothers_day      |-> _get_nth_weekday(year, 5, 0, 2),
        fathers_day      |-> _get_nth_weekday(year, 6, 0, 3),
        labor_day        |-> _get_nth_weekday(year, 9, 0, 1),
        thanksgiving     |-> thanksgiving,
        black_friday     |-> thanksgiving + 1,
        cyber_monday     |-> thanksgiving + 4]

PeriodNames ==
    <<"back_to_school", "black_friday_week", "christmas_shopping", "post_christmas",
      "valentines_week", "mothers_day_week", "summer_holidays", "year_end_holidays">>

get_holiday_periods(year) ==
    LET holidays == get_major_holidays(year)
    IN [back_to_school     |-> <<date(year, 8, 15), date(year, 9, 15)>>,
        black_friday_week  |-> <<holidays.thanksgiving - 1, holidays.cyber_monday>>,
        christmas_shopping |-> <<date(year, 12, 1), date(year, 12, 23)>>,
        post_christmas     |-> <<date(year, 12, 26), date(year + 1, 1, 2)>>,
        valentines_week    |-> <<holidays.valentines_day - 3, holidays.valentines_day + 1>>,
        mothers_day_week   |-> <<holidays.mothers_day - 3, holidays.mothers_day + 1>>,
        summer_holidays    |-> <<date(year, 6, 15), date(year, 8, 15)>>,
        year_end_holidays  |-> <<date(year, 12, 20), date(year + 1, 1, 5)>>]

\* The names found by the two loops, holidays first, each in dict order.
get_active_holidays(target_date) ==
    LET year == year_of(target_date)
        holidays == get_major_holidays(year)
        periods == get_holiday_periods(year)
    IN SelectSeq(HolidayNames, LAMBDA h : target_date = holidays[h])
         \o SelectSeq(PeriodNames,
                      LAMBDA p : periods[p][1] <= target_date /\ target_date <= periods[p][2])

\* is_weekend
is_weekend(target_date) == weekday(target_date) >= 5

\* The years and dates the calendar functions are called with: 28 consecutive
\* years hold every combination of leap year and weekday of January 1.
Years == 2000..2027
Dates == date(2020, 1, 1)..date(2027, 12, 31)

GetMajorHolidays(year) ==
    /\ CallIdle
    /\ call' = [op |-> "get_major_holidays", year |-> year,
                result |-> get_major_holidays(year)]
    /\ UNCHANGED exceptCall

GetHolidayPeriods(year) ==
    /\ CallIdle
    /\ call' = [op |-> "get_holiday_periods", year |-> year,
                result |-> get_holiday_periods(year)]
    /\ UNCHANGED exceptCall

GetActiveHolidays(target_date) ==
    /\ CallIdle
    /\ call' = [op |-> "get_active_holidays", target_date |-> target_date,
                result |-> get_active_holidays(target_date)]
    /\ UNCHANGED exceptCall

\* The caller takes the result; the functions keep nothing between calls.
TakeResult ==
    /\ ~CallIdle
    /\ call' = [op |-> "none"]
    /\ UNCHANGED exceptCall

InitHoliday == CallIdle /\ IdleExceptCall

NextHoliday ==
    \/ \E year \in Years : GetMajorHolidays(year)
    \/ \E year \in Years : GetHolidayPeriods(year)
    \/ \E target_date \in Dates : GetActiveHolidays(target_date)
    \/ TakeResult

SpecHoliday == InitHoliday /\ [][NextHoliday]_vars

\* d is the n-th day of the month whose weekday is wd
IsNthWeekdayOfMonth(d, year, month, wd, n) ==
    /\ year_of(d) = year /\ month_of(d) = month
    /\ weekday(d) = wd
    /\ Cardinality({e \in date(year, month, 1)..d : weekday(e) = wd}) = n

\* C12: thanksgiving is the 4th Thursday of November, black_friday the day
\* after (a Friday), cyber_monday four days after (a Monday), labor_day the 1st
\* Monday of September; in 2024 they are Nov 28, Nov 29, Dec 2 and Sep 2
\* (ordinals 739218, 739219, 739222, 739131).
C12_ThanksgivingAndLaborDay ==
    call.op = "get_major_holidays" =>
        LET h == call.result
        IN /\ IsNthWeekdayOfMonth(h.thanksgiving, call.year, 11, 3, 4)
           /\ h.black_friday = h.thanksgiving + 1 /\ weekday(h.black_friday) = 4
           /\ h.cyber_monday = h.thanksgiving + 4 /\ weekday(h.cyber_monday) = 0
           /\ IsNthWeekdayOfMonth(h.labor_day, call.year, 9, 0, 1)
           /\ call.year = 2024 =>
                /\ h.thanksgiving = 739218 /\ h.thanksgiving = date(2024, 11, 28)
                /\ h.black_friday = 739219 /\ h.black_friday = date(2024, 11, 29)
                /\ h.cyber_monday = 739222 /\ h.cyber_monday = date(2024, 12, 2)
                /\ h.labor_day = 739131 /\ h.labor_day = date(2024, 9, 2)

\* The holidays of 2024 have been computed.
C12_Witness ==
    /\ call.op = "get_major_holidays"
    /\ call.year = 2024
    /\ call.result.thanksgiving = 739218

\* C13: mothers_day is the 2nd Sunday of May and fathers_day the 3rd Sunday
\* of June.
C13_AsStated ==
    call.op = "get_major_holidays" =>
        /\ IsNthWeekdayOfMonth(call.result.mothers_day, call.year, 5, 6, 2)
        /\ IsNthWeekdayOfMonth(call.result.fathers_day, call.year, 6, 6, 3)

SeqRange(s) == {s[k] : k \in 1..Len(s)}

\* C14: get_active_holidays(d) holds every holiday whose date is d and every
\* period, of any year, whose inclusive range contains d.
C14_AsStated ==
    call.op = "get_active_holidays" =>
        LET d == call.target_date
        IN \A year \in (year_of(d) - 1)..(year_of(d) + 1) :
              /\ \A h \in SeqRange(HolidayNames) :
                    get_major_holidays(year)[h] = d => h \in SeqRange(call.result)
              /\ \A p \in SeqRange(PeriodNames) :
                    (get_holiday_periods(year)[p][1] <= d /\ d <= get_holiday_periods(year)[p][2])
                        => p \in SeqRange(call.result)

\* C15: get_holiday_periods(year) returns the table's ranges: mothers_day_week
\* from 3 days before mothers_day through mothers_day, valentines_week Feb 11
\* to Feb 15, black_friday_week from the day before thanksgiving through
\* cyber_monday, and the fixed ranges.
C15_AsStated ==
    call.op = "get_holiday_periods" =>
        LET year == call.year
            holidays == get_major_holidays(year)
        IN call.result =
            [back_to_school     |-> <<date(year, 8, 15), date(year, 9, 15)>>,
             black_friday_week  |-> <<holidays.thanksgiving - 1, holidays.cyber_monday>>,
             christmas_shopping |-> <<date(year, 12, 1), date(year, 12, 23)>>,
             post_christmas     |-> <<date(year, 12, 26), date(year + 1, 1, 2)>>,
             valentines_week    |-> <<date(year, 2, 11), date(year, 2, 15)>>,
             mothers_day_week   |-> <<holidays.mothers_day - 3, holidays.mothers_day>>,
             summer_holidays    |-> <<date(year, 6, 15), date(year, 8, 15)>>,
             year_end_holidays  |-> <<date(year, 12, 20), date(year + 1, 1, 5)>>]

----------------------------------------------------------------------------
(* Arrival patterns (core/arrival_patterns.py); rate multipliers are in tenths *)

Hours == 0..23
PeakHourSamples == {0, 4, 9, 13, 20, 23}
PeakHourLists == UNION {[1..n -> PeakHourSamples] : n \in 0..MaxPeakHours}

BandsBeforePeaks(hour, peak_hours) ==
    IF 2 <= hour /\ hour <= 6 THEN 2
    ELSE IF 8 <= hour /\ hour <= 10 THEN 20
    ELSE IF 12 <= hour /\ hour <= 14 THEN 30
    ELSE IF 19 <= hour /\ hour <= 21 THEN 40
    ELSE IF \E k \in 1..Len(peak_hours) : peak_hours[k] = hour THEN 50
    ELSE 10

get_daily_rate_multiplier(hour, peak_hours) ==
    IF \E k \in 1..Len(peak_hours) : peak_hours[k] = hour THEN 50
    ELSE IF 2 <= hour /\ hour <= 6 THEN 2
    ELSE IF 8 <= hour /\ hour <= 10 THEN 20
    ELSE IF 12 <= hour /\ hour <= 14 THEN 30
    ELSE IF 19 <= hour /\ hour <= 21 THEN 40
    ELSE 10

GetDailyRateMultiplier(hour, peak_hours) ==
    /\ CallIdle
    /\ call' = [op |-> "get_daily_rate_multiplier", hour |-> hour, peak_hours |-> peak_hours,
                result |-> get_daily_rate_multiplier(hour, peak_hours)]
    /\ UNCHANGED exceptCall

InitArrival == CallIdle /\ IdleExceptCall

NextArrival ==
    \/ \E hour \in Hours, peak_hours \in PeakHourLists : GetDailyRateMultiplier(hour, peak_hours)
    \/ TakeResult

SpecArrival == InitArrival /\ [][NextArrival]_vars

\* C16: the multiplier is 5.0 for an hour in the peak list, whatever band it
\* is in; otherwise 0.2 for hours 2-6, 2.0 for 8-10, 3.0 for 12-14, 4.0 for
\* 19-21 and 1.0 for every other hour.
C16_DailyRateMultiplier ==
    call.op = "get_daily_rate_multiplier" =>
        call.result =
            CASE call.hour \in SeqRange(call.peak_hours) -> 50
              [] call.hour \notin SeqRange(call.peak_hours) /\ call.hour \in {2, 3, 4, 5, 6} -> 2
              [] call.hour \notin SeqRange(call.peak_hours) /\ call.hour \in {8, 9, 10} -> 20
              [] call.hour \notin SeqRange(call.peak_hours) /\ call.hour \in {12, 13, 14} -> 30
              [] call.hour \notin SeqRange(call.peak_hours) /\ call.hour \in {19, 20, 21} -> 40
              [] OTHER -> 10

\* An hour of the night band that is also a peak hour got 5.0.
C16_Witness ==
    /\ call.op = "get_daily_rate_multiplier"
    /\ call.hour = 4
    /\ call.peak_hours = <<20, 4>>
    /\ call.result = 50

----------------------------------------------------------------------------
(* Current-date streaming from a generator constructed with a seed *)

StreamSeeds == {None, Some(0), Some(42), Some(-1), Some(-1000000)}

\* A generator constructed in current-date mode: no construction step reads
\* the seed except to seed the registries, which take any integer.
InitSeeded ==
    /\ generator_class \in GeneratorClasses
    /\ max_records \in OptMaxRecords
    /\ start_date = None /\ end_date = None
    /\ volume_variation_enabled \in BOOLEAN
    /\ base_daily_volume \in 1..MaxBaseVolume
    /\ config_seed \in StreamSeeds
    /\ _historical_timestamps = << >>
    /\ _records_generated = 0
    /\ pc = [s \in 1..MaxStreams |-> "created"]
    /\ cursor = [s \in 1..MaxStreams |-> <<1, 1>>]
    /\ delivered = << >>
    /\ now = (MaxSpan + 1) * SecondsPerDay
    /\ IdleExceptStream

SpecSeeded == InitSeeded /\ [][Next]_vars

\* C17: once a generator has been constructed from a validated configuration,
\* no request for a record fails because of a configuration value.
C17_AsStated == \A s \in DOMAIN pc : pc[s] # "failed"

----------------------------------------------------------------------------
(* BNPL daily volume: day-of-week x week-of-month x month-of-year x       *)
(* special-event multiplier x noise.  Every multiplier of the code is a   *)
(* multiple of 0.05 and is held in twentieths; noise is in thousandths.   *)

Twentieth == 20
NoiseUnit == 1000

\* _get_day_of_week_multiplier: 1.15 1.10 1.05 1.10 1.25 0.85 0.70
_get_day_of_week_multiplier(date_obj) ==
    <<23, 22, 21, 22, 25, 17, 14>>[weekday(date_obj) + 1]

\* _get_week_of_month_multiplier: 1.15, 0.95, 1.10, 0.90
_get_week_of_month_multiplier(date_obj) ==
    LET day_of_month == day_of(date_obj)
    IN IF day_of_month <= 7 THEN 23
       ELSE IF day_of_month <= 14 THEN 19
       ELSE IF day_of_month <= 21 THEN 22
       ELSE 18

\* _get_month_of_year_multiplier: 0.75 0.85 0.95 1.00 1.00 1.05 1.05 1.05
\* 1.00 1.05 1.10 1.20
_get_month_of_year_multiplier(date_obj) ==
    <<15, 17, 19, 20, 20, 21, 21, 21, 20, 21, 22, 24>>[month_of(date_obj)]

\* event_multipliers of _get_special_event_multiplier
event_multipliers ==
    [black_friday |-> 32, cyber_monday |-> 28,
     christmas_day |-> 2, christmas_eve |-> 6, new_years_day |-> 4,
     new_years_eve |-> 8, thanksgiving |-> 4,
     valentines_day |-> 23, mothers_day |-> 24, fathers_day |-> 22,
     halloween |-> 21,
     labor_day |-> 21, independence_day |-> 16,
     year_end_holidays |-> 10, christmas_shopping |-> 24,
     post_christmas |-> 26, black_friday_week |-> 26, valentines_week |-> 22,
     mothers_day_week |-> 23, back_to_school |-> 24, summer_holidays |-> 20]

\* event_multipliers.get(holiday, 1.0)
event_multiplier_of(holiday) ==
    IF holiday \in DOMAIN event_multipliers THEN event_multipliers[holiday]
    ELSE Twentieth

SetMin(S) == CHOOSE m \in S : \A n \in S : m <= n
SetMax(S) == CHOOSE m \in S : \A n \in S : m >= n

\* multipliers = [event_multipliers.get(holiday, 1.0) for holiday in ...]
multipliers_of(active_holidays) ==
    {event_multiplier_of(active_holidays[k]) : k \in 1..Len(active_holidays)}

AlwaysMax(multipliers) == SetMax(multipliers)

\* min(suppressive) if any multiplier is below 1.0, else max(multipliers)
most_restrictive_or_generous(multipliers) ==
    LET suppressive == {m \in multipliers : m < Twentieth}
    IN IF suppressive # {} THEN SetMin(suppressive) ELSE SetMax(multipliers)

event_multiplier_for(active_holidays) ==
    IF active_holidays = << >> THEN Twentieth
    ELSE most_restrictive_or_generous(multipliers_of(active_holidays))

NoSpecialEvents(date_obj) == Twentieth

\* _get_special_event_multiplier: 1.0 without active holidays, else the
\* smallest multiplier below 1.0 if there is one, else the largest
_get_special_event_multiplier(date_obj) ==
    event_multiplier_for(get_active_holidays(date_obj))

\* total_multiplier, in units of 1 / 20^4
total_multiplier(target_date) ==
    _get_day_of_week_multiplier(target_date)
        * _get_week_of_month_multiplier(target_date)
        * _get_month_of_year_multiplier(target_date)
        * _get_special_event_multiplier(target_date)

TotalUnit == Twentieth * Twentieth * Twentieth * Twentieth

\* int(x * noise_factor) for x in units of 1 / 20^4 and noise_factor in
\* thousandths; the product is divided in two steps so that no intermediate
\* value leaves 32 bits.
int_of_product(x, noise_factor) ==
    ((x \div TotalUnit) * noise_factor
        + ((x % TotalUnit) * noise_factor) \div TotalUnit) \div NoiseUnit

\* max(1, int(base_volume * total_multiplier * noise_factor))
statistical_daily_volume(base_volume, target_date, noise_factor) ==
    Max2(1, int_of_product(base_volume * total_multiplier(target_date),
                           noise_factor))

\* np.random.lognormal(mean=0, sigma=0.1) as first drawn after
\* np.random.seed(n), in thousandths rounded down, for n from 739250
\* (seed 42 on 2024-11-18) to 739274 (seed 42 on 2024-12-12).
seeded_lognormal ==
    [n \in 739250..739274 |->
        <<1170, 1011, 1305, 813, 1008, 1111, 845, 908, 999, 1055, 909, 1028,
          1098, 983, 1032, 832, 912, 938, 892, 921, 981, 958, 1018, 974,
          1060>>[n - 739249]]

\* Without a truthy seed numpy is seeded from the system and the draw can be
\* any positive number; these are the values tried.
NoiseSamples == {900, 1000, 1100}

\* random.seed / np.random.seed(seed + target_date.toordinal() if seed else
\* None) followed by the draw of noise_factor
noise_factors(seed, target_date) ==
    IF Truthy(seed) THEN {seeded_lognormal[Val(seed) + target_date]}
    ELSE NoiseSamples

MaxVolumeSpan == 2
BaseVolumes == {1, 100}
VolumeStarts == date(2024, 11, 26)..date(2024, 11, 29)

\* BNPLGenerator(BNPLConfig(base_daily_volume, start_date, end_date, seed))
\* with volume variation: _generate_volume_aware_timestamps stamps
\* daily_volume timestamps on each day from start_date to end_date;
\* date_counts is the number of timestamps per date.
GenerateVolumeAwareTimestamps(base_volume, seed, start, end) ==
    /\ CallIdle
    /\ \E noise \in [start..end -> NoiseSamples \cup
                        UNION {noise_factors(seed, d) : d \in start..end}] :
         /\ \A d \in start..end : noise[d] \in noise_factors(seed, d)
         /\ call' = [op |-> "_generate_volume_aware_timestamps",
                     base_daily_volume |-> base_volume, seed |-> seed,
                     start_date |-> start, end_date |-> end,
                     date_counts |->
                        [d \in start..end |->
                            statistical_daily_volume(base_volume, d, noise[d])]]
    /\ UNCHANGED exceptCall

InitVolume == CallIdle /\ IdleExceptCall

NextVolume ==
    \/ \E base_volume \in BaseVolumes, seed \in SeedSamples,
          start \in VolumeStarts, span \in 0..MaxVolumeSpan :
            GenerateVolumeAwareTimestamps(base_volume, seed, start, start + span)
    \/ TakeResult

SpecVolume == InitVolume /\ [][NextVolume]_vars

\* C18: with base_daily_volume 100, seed 42 and volume variation, the number
\* of historical timestamps dated 2024-11-29 exceeds 1.5 times the number
\* dated 2024-11-28 and 1.5 times the number dated 2024-11-30.
C18_BlackFridaySpike ==
    (/\ call.op = "_generate_volume_aware_timestamps"
     /\ call.base_daily_volume = 100 /\ call.seed = Some(42)
     /\ call.start_date <= date(2024, 11, 28)
     /\ call.end_date >= date(2024, 11, 30)) =>
        LET bf_count == call.date_counts[date(2024, 11, 29)]
            thu_count == call.date_counts[date(2024, 11, 28)]
            sat_count == call.date_counts[date(2024, 11, 30)]
        IN /\ 2 * bf_count > 3 * thu_count
           /\ 2 * bf_count > 3 * sat_count

\* The three days have been generated: 19, 203 and 120 timestamps.
C18_Witness ==
    /\ call.op = "_generate_volume_aware_timestamps"
    /\ call.base_daily_volume = 100 /\ call.seed = Some(42)
    /\ call.start_date = date(2024, 11, 28)
    /\ call.end_date = date(2024, 11, 30)
    /\ call.date_counts[date(2024, 11, 28)] = 19
    /\ call.date_counts[date(2024, 11, 29)] = 203
    /\ call.date_counts[date(2024, 11, 30)] = 120

----------------------------------------------------------------------------
(* Historical delivery, day by day *)

\* the records invocation s has delivered
DeliveredBy(s) == SelectSeq(delivered, LAMBDA r : r.stream = s)

\* the date of the record invocation s delivered last
LastDateOf(s) == date_of(DeliveredBy(s)[Len(DeliveredBy(s))]._timestamp)

\* the dates that have a batch
BatchDates ==
    {date_of(_historical_timestamps[k]) : k \in 1..Len(_historical_timestamps)}

\* the size of the batch of date D
BatchSize(D) ==
    Cardinality({k \in 1..Len(_historical_timestamps) :
                    date_of(_historical_timestamps[k]) = D})

\* how many records dated D invocation s has delivered
DeliveredOn(s, D) ==
    Cardinality({k \in 1..Len(DeliveredBy(s)) :
                    date_of(DeliveredBy(s)[k]._timestamp) = D})

\* this step appends a record of invocation s
Delivers(s) ==
    /\ Len(delivered') = Len(delivered) + 1
    /\ delivered'[Len(delivered')].stream = s

NewDate == date_of(delivered'[Len(delivered')]._timestamp)

C19_Step(s) ==
    \* a wait begins only after the whole batch of a day that is not the last
    /\ (pc[s] # "sleeping" /\ pc'[s] = "sleeping") =>
          /\ pc[s] = "yielded"
          /\ DeliveredOn(s, LastDateOf(s)) = BatchSize(LastDateOf(s))
          /\ \E D \in BatchDates : D > LastDateOf(s)
          /\ delivered' = delivered
    \* a wait lasts one second and is followed by the first record of the
    \* next day or by the end of the stream, never by another wait
    /\ (pc[s] = "sleeping" /\ pc'[s] # "sleeping") =>
          /\ now' = now + 1
          /\ pc'[s] \in {"yielded", "done"}
          /\ pc'[s] = "yielded" =>
                /\ Delivers(s)
                /\ NewDate > LastDateOf(s)
                /\ \A D \in BatchDates : D > LastDateOf(s) => NewDate <= D
    \* a record of the same day follows without a wait, a record of another
    \* day is of a later day and follows a wait
    /\ (Delivers(s) /\ DeliveredBy(s) # << >>) =>
          /\ NewDate >= LastDateOf(s)
          /\ NewDate = LastDateOf(s) => (pc[s] = "yielded" /\ now' = now)
          /\ NewDate > LastDateOf(s) =>
                (pc[s] = "sleeping" /\ DeliveredOn(s, LastDateOf(s)) = BatchSize(LastDateOf(s)))

\* C19: in historical delivery the days come in ascending date order, the
\* records of one day follow each other without a wait, exactly one 1-second
\* wait lies between the last record of a day and the first record of the next
\* day, and no wait follows the batch of the last day.
C19_DayBatches ==
    [][_is_historical_mode => \A s \in DOMAIN pc : C19_Step(s)]_vars

\* One invocation delivered the two records of a day, waited one second,
\* delivered the record of the next day and ended without another wait.
C19_Witness ==
    /\ _is_historical_mode
    /\ \E s \in DOMAIN pc :
          /\ pc[s] = "done"
          /\ Len(DeliveredBy(s)) = 3 /\ Len(delivered) = 3
          /\ date_of(delivered[1]._timestamp) = date_of(delivered[2]._timestamp)
          /\ date_of(delivered[3]._timestamp) > date_of(delivered[2]._timestamp)
          /\ Len(_historical_timestamps) = 3
          /\ now = (MaxSpan + 1) * SecondsPerDay + 1

----------------------------------------------------------------------------
(* The special-event multiplier, date by date *)

GetSpecialEventMultiplier(date_obj) ==
    /\ CallIdle
    /\ call' = [op |-> "_get_special_event_multiplier", date_obj |-> date_obj,
                active_holidays |-> get_active_holidays(date_obj),
                result |-> _get_special_event_multiplier(date_obj)]
    /\ UNCHANGED exceptCall

InitEvent == CallIdle /\ IdleExceptCall

NextEvent ==
    \/ \E date_obj \in Dates : GetSpecialEventMultiplier(date_obj)
    \/ TakeResult

SpecEvent == InitEvent /\ [][NextEvent]_vars

\* the multipliers of the table of the specification, in twentieths
TableMultipliers ==
    [black_friday |-> 32, cyber_monday |-> 28, christmas_day |-> 2,
     christmas_eve |-> 6, new_years_day |-> 4, new_years_eve |-> 8,
     thanksgiving |-> 4, valentines_day |-> 23, mothers_day |-> 24,
     fathers_day |-> 22, halloween |-> 21, labor_day |-> 21,
     independence_day |-> 16, year_end_holidays |-> 10,
     christmas_shopping |-> 24, post_christmas |-> 26, black_friday_week |-> 26,
     valentines_week |-> 22, mothers_day_week |-> 23, back_to_school |-> 24,
     summer_holidays |-> 20]

----------------------------------------------------------------------------
(* The daily volume of one date under a configuration that carries       *)
(* include_holiday_patterns                                               *)

PatternDates == date(2024, 11, 18)..date(2024, 12, 12)

\* BNPLConfig(include_holiday_patterns=..., base_daily_volume=..., seed=...)
\* followed by _calculate_statistical_daily_volume(base_volume, target_date):
\* the method reads config.seed and nothing else of the configuration.
CalculateStatisticalDailyVolume(include_holiday_patterns, base_volume, seed, target_date) ==
    /\ CallIdle
    /\ \E noise_factor \in noise_factors(seed, target_date) :
         call' = [op |-> "_calculate_statistical_daily_volume",
                  include_holiday_patterns |-> include_holiday_patterns,
                  base_daily_volume |-> base_volume, seed |-> seed,
                  target_date |-> target_date,
                  event_multiplier |-> _get_special_event_multiplier(target_date),
                  result |-> statistical_daily_volume(base_volume, target_date,
                                                      noise_factor)]
    /\ UNCHANGED exceptCall

InitPatterns == CallIdle /\ IdleExceptCall

NextPatterns ==
    \/ \E include_holiday_patterns \in BOOLEAN, base_volume \in BaseVolumes,
          seed \in SeedSamples, target_date \in PatternDates :
            CalculateStatisticalDailyVolume(include_holiday_patterns, base_volume,
                                            seed, target_date)
    \/ TakeResult

SpecPatterns == InitPatterns /\ [][NextPatterns]_vars

\* C21: with include_holiday_patterns false the daily-volume calculation
\* applies no special-event multiplier: the event factor is 1.0 on every date.
C21_AsStated ==
    (call.op = "_calculate_statistical_daily_volume"
        /\ ~call.include_holiday_patterns) => call.event_multiplier = Twentieth

----------------------------------------------------------------------------
(* Uniform historical timestamps over windows of up to three weeks *)

UniformMaxDays == 22
UniformMaxRecords == {None, Some(1), Some(7), Some(44)}

\* target_date of the i-th record, in generation order
uniform_target_dates(start, end, mr, base_volume) ==
    LET total_days == (end - start) + 1
        total_records == uniform_total_records(start, end, mr, base_volume)
    IN [k \in 1..total_records |->
           start + day_offset(k - 1, total_records, total_days)]

\* BNPLGenerator(BNPLConfig(start_date, end_date, max_records,
\* base_daily_volume, volume_variation_enabled=False)): __init__ keeps what
\* _generate_uniform_timestamps returns.
GenerateUniformTimestamps(start, end, mr, base_volume) ==
    /\ CallIdle
    /\ \E t \in TimeSamples :
         call' = [op |-> "_generate_uniform_timestamps",
                  start_date |-> start, end_date |-> end, max_records |-> mr,
                  base_daily_volume |-> base_volume,
                  target_dates |-> uniform_target_dates(start, end, mr, base_volume),
                  timestamps |->
                     _generate_uniform_timestamps(start, end, mr, base_volume,
                        [k \in 1..uniform_total_records(start, end, mr, base_volume)
                            |-> t])]
    /\ UNCHANGED exceptCall

InitUniform == CallIdle /\ IdleExceptCall

NextUniform ==
    \/ \E span \in 0..(UniformMaxDays - 1), mr \in UniformMaxRecords,
          base_volume \in 1..MaxBaseVolume :
            GenerateUniformTimestamps(0, span, mr, base_volume)
    \/ TakeResult

SpecUniform == InitUniform /\ [][NextUniform]_vars

\* C22: without volume variation the number of timestamps is max_records if
\* set, else base_daily_volume times the inclusive day count; the i-th
\* timestamp (0-based, before sorting) is dated start_date +
\* floor(i * number_of_days / total); every date lies in the window and the
\* per-day counts differ by at most 1.
C22_AsStated ==
    call.op = "_generate_uniform_timestamps" =>
        LET number_of_days == call.end_date - call.start_date + 1
            total == IF IsNone(call.max_records)
                     THEN call.base_daily_volume * number_of_days
                     ELSE Val(call.max_records)
            per_day == [d \in call.start_date..call.end_date |->
                          Cardinality({k \in 1..Len(call.timestamps) :
                                          date_of(call.timestamps[k]) = d})]
        IN /\ Len(call.timestamps) = total
           /\ Len(call.target_dates) = total
           /\ \A k \in 1..total :
                 call.target_dates[k] =
                     call.start_date + ((k - 1) * number_of_days) \div total
           /\ \A k \in 1..total :
                 /\ call.start_date <= date_of(call.timestamps[k])
                 /\ date_of(call.timestamps[k]) <= call.end_date
           /\ \A d, e \in call.start_date..call.end_date :
                 per_day[d] - per_day[e] <= 1

----------------------------------------------------------------------------
(* The current-day rate multiplier and numpy's process-wide generator *)

MaxRateCalls == 3
MaxRateDays == 1
MaxNumpyDraws == 2

today == date_of(now)

RateFrame ==
    /\ UNCHANGED_config
    /\ UNCHANGED <<_historical_timestamps, _records_generated, pc, cursor, delivered>>
    /\ UNCHANGED <<cfgVars, regVars, riskVars, pluginVars, callVars, ecomVars>>

\* get_current_day_rate_multiplier: 1.0 in historical mode or without volume
\* variation; else numpy is seeded with seed + today.toordinal() if the seed
\* is truthy and from system entropy if not, and the result is the product of
\* the four multipliers and the first log-normal draw.
GetCurrentDayRateMultiplier ==
    /\ generator_class = "BNPLGenerator"
    /\ Len(rate_calls) < MaxRateCalls
    /\ IF use_historical_timestamps \/ ~volume_variation_enabled
       THEN /\ rate_calls' = Append(rate_calls,
                  [day |-> today, value |-> "1.0", total |-> TotalUnit,
                   noise |-> <<<<"none", 0>>, 0>>])
            /\ UNCHANGED <<np_random_state, np_reseeds>>
       ELSE IF Truthy(config_seed)
       THEN IF NumpySeedOk(Val(config_seed) + toordinal(today))
            THEN LET seeded == [src |-> <<"seed", Val(config_seed) + toordinal(today)>>,
                                pos |-> 0]
                 IN /\ rate_calls' = Append(rate_calls,
                          [day |-> today, value |-> "product",
                           total |-> total_multiplier(toordinal(today)),
                           noise |-> Draw(seeded, 0)])
                    /\ np_random_state' = Advance(seeded, 1)
                    /\ UNCHANGED np_reseeds
            ELSE /\ rate_calls' = Append(rate_calls,
                       [day |-> today, value |-> "ValueError", total |-> 0,
                        noise |-> <<<<"none", 0>>, 0>>])
                 /\ UNCHANGED <<np_random_state, np_reseeds>>
       ELSE LET fresh == [src |-> <<"entropy", np_reseeds + 1>>, pos |-> 0]
            IN /\ rate_calls' = Append(rate_calls,
                     [day |-> today, value |-> "product",
                      total |-> total_multiplier(toordinal(today)),
                      noise |-> Draw(fresh, 0)])
               /\ np_random_state' = Advance(fresh, 1)
               /\ np_reseeds' = np_reseeds + 1
    /\ UNCHANGED now
    /\ RateFrame

\* Some other code draws from numpy's generator.
NumpyDraw ==
    /\ np_random_state.pos < MaxNumpyDraws
    /\ np_random_state' = Advance(np_random_state, 1)
    /\ UNCHANGED <<np_reseeds, rate_calls, now>>
    /\ RateFrame

\* Midnight passes.
NextDay ==
    /\ today < MaxSpan + 1 + MaxRateDays
    /\ now' = now + SecondsPerDay
    /\ UNCHANGED npVars
    /\ RateFrame

InitRate == InitSeeded /\ generator_class = "BNPLGenerator"

NextRate == GetCurrentDayRateMultiplier \/ NumpyDraw \/ NextDay

SpecRate == InitRate /\ [][NextRate]_vars

\* C23: in current-date mode with volume variation, whenever a seed is
\* configured (any integer), the calls of get_current_day_rate_multiplier
\* within one calendar day return the same value, whatever is drawn between.
C23_AsStated ==
    (~IsNone(config_seed) /\ volume_variation_enabled) =>
        \A i, j \in 1..Len(rate_calls) :
            rate_calls[i].day = rate_calls[j].day
                => /\ rate_calls[i].value = rate_calls[j].value
                   /\ rate_calls[i].total = rate_calls[j].total
                   /\ rate_calls[i].noise = rate_calls[j].noise

----------------------------------------------------------------------------
(* apply_noise and apply_drift.  A record maps its keys to <<type, value>>; *)
(* numbers are held in thousandths, True as 1 and False as 0.              *)

Thousandth == 1000

\* The fields records are built from: a float, an int, two booleans, a
\* string, a null and two metadata fields.
FieldPool ==
    [amount |-> <<"float", 100000>>,
     installment_count |-> <<"int", 4000>>,
     will_default |-> <<"bool", 1000>>,
     device_is_trusted |-> <<"bool", 0>>,
     customer_id |-> <<"str", 0>>,
     days_to_first_missed_payment |-> <<"NoneType", 0>>,
     _record_id |-> <<"int", 7000>>,
     _timestamp |-> <<"str", 0>>]

\* key.startswith('_')
startswith_underscore(key) == key \in {"_record_id", "_timestamp", "_generator"}

\* isinstance(value, (int, float)): bool is a subclass of int
isinstance_int_float(field) == field[1] \in {"int", "float", "bool"}

RecordSamples == {[k \in keys |-> FieldPool[k]] : keys \in SUBSET DOMAIN FieldPool}

NoiseTypes == {"none", "gaussian", "uniform", "outliers"}
DriftTypes == {"none", "linear", "seasonal", "sudden", "gradual"}

\* what a draw contributes, in thousandths of the value
RelativeSamples == {-50, 0, 50}
\* the outlier multiplier, uniform(2.0, 5.0) times -1 or 1, in thousandths
OutlierSamples == {-2000, 3000}

Abs(v) == IF v < 0 THEN -v ELSE v

\* _apply_noise_to_value: every branch returns value plus or times a float
_apply_noise_to_value(field, noise_type, rel, outlier) ==
    IF noise_type \in {"gaussian", "uniform"}
    THEN <<"float", field[2] + (Abs(field[2]) * rel) \div Thousandth>>
    ELSE IF noise_type = "outliers"
    THEN IF ~IsNone(outlier)
         THEN <<"float", (field[2] * Val(outlier)) \div Thousandth>>
         ELSE <<"float", field[2] + (Abs(field[2]) * rel) \div Thousandth>>
    ELSE field

\* apply_noise
apply_noise(record, noise_type, rel, outlier) ==
    IF noise_type = "none" THEN record
    ELSE [key \in DOMAIN record |->
            IF isinstance_int_float(record[key]) /\ ~startswith_underscore(key)
            THEN _apply_noise_to_value(record[key], noise_type, rel[key], outlier[key])
            ELSE record[key]]

\* _apply_drift_to_value: sudden drift returns the value itself until the
\* threshold has passed; every other branch returns a float
_apply_drift_to_value(field, drift_type, rel, past_threshold) ==
    IF drift_type \in {"linear", "seasonal", "gradual"}
    THEN <<"float", field[2] + (field[2] * rel) \div Thousandth>>
    ELSE IF drift_type = "sudden"
    THEN IF past_threshold
         THEN <<"float", field[2] + (field[2] * rel) \div Thousandth>>
         ELSE field
    ELSE field

\* apply_drift
apply_drift(record, drift_type, rel, past_threshold) ==
    IF drift_type = "none" THEN record
    ELSE [key \in DOMAIN record |->
            IF isinstance_int_float(record[key]) /\ ~startswith_underscore(key)
            THEN _apply_drift_to_value(record[key], drift_type, rel, past_threshold)
            ELSE record[key]]

ApplyNoise(record, noise_type) ==
    /\ CallIdle
    /\ \E r \in RelativeSamples, o \in {None} \cup {Some(m) : m \in OutlierSamples} :
         call' = [op |-> "apply_noise", record |-> record, kind |-> noise_type,
                  result |-> apply_noise(record, noise_type,
                                         [key \in DOMAIN record |-> r],
                                         [key \in DOMAIN record |-> o])]
    /\ UNCHANGED exceptCall

ApplyDrift(record, drift_type) ==
    /\ CallIdle
    /\ \E r \in RelativeSamples, past_threshold \in BOOLEAN :
         call' = [op |-> "apply_drift", record |-> record, kind |-> drift_type,
                  result |-> apply_drift(record, drift_type, r, past_threshold)]
    /\ UNCHANGED exceptCall

InitNoise == CallIdle /\ IdleExceptCall

NextNoise ==
    \/ \E record \in RecordSamples, noise_type \in NoiseTypes :
          ApplyNoise(record, noise_type)
    \/ \E record \in RecordSamples, drift_type \in DriftTypes :
          ApplyDrift(record, drift_type)
    \/ TakeResult

SpecNoise == InitNoise /\ [][NextNoise]_vars

\* C24: apply_noise and apply_drift return string, boolean, null and
\* '_'-prefixed fields with unchanged value and type, and return the whole
\* record unchanged when the noise (drift) type is none.
C24_AsStated ==
    call.op \in {"apply_noise", "apply_drift"} =>
        /\ DOMAIN call.result = DOMAIN call.record
        /\ \A key \in DOMAIN call.record :
              (call.record[key][1] \in {"str", "bool", "NoneType"}
                  \/ startswith_underscore(key))
                    => call.result[key] = call.record[key]
        /\ call.kind = "none" => call.result = call.record

----------------------------------------------------------------------------
(* The ecommerce generator: four registries and the known customer ids.   *)
(* An id is the sequence of the parts its string has between underscores: *)
(* <<"cust", 1>> is cust_000001, <<"cust", 1, "pm", 2>> is                *)
(* cust_000001_pm_2.  The attributes a fabrication draws are named by the *)
(* id and by how often the id was fabricated before.                      *)

\* the capacities the generator is configured with, and the calls made
MaxCustomersSamples == {0, 1}
MaxProductsSamples == {0, 1, 2}
MaxEcomCalls == 2

\* the values sampled of random.randint(1, 2) in get_device and of
\* random.randint(1, 3) in get_payment_method
DeviceNumbers == {2}
PaymentMethodNumbers == {1, 3}

DefaultMaxPaymentMethods == 20000
DefaultMaxDevices == 15000

\* The registries and the list, as one value the helpers pass along.
EcomState ==
    [customers |-> customers, products |-> products,
     payment_methods |-> payment_methods, devices |-> devices,
     fabricated |-> fabricated, known |-> _known_customer_ids]

FabCount(fab, key) == IF key \in DOMAIN fab THEN fab[key] ELSE 0

Fabricate(fab, key) ==
    [k \in DOMAIN fab \cup {key} |-> IF k = key THEN FabCount(fab, key) + 1 ELSE fab[k]]

\* CustomerRegistry._generate_entity
CustomerRegistry_generate_entity(customer_id, draw) ==
    [customer_id |-> customer_id, drawn |-> draw]

\* ProductRegistry._generate_entity
ProductRegistry_generate_entity(product_id, draw, bnpl_eligible) ==
    [product_id |-> product_id, bnpl_eligible |-> bnpl_eligible, drawn |-> draw]

\* payment_method_id.split('_')[0] if '_' in payment_method_id else
\* payment_method_id
split_first(payment_method_id) ==
    IF Len(payment_method_id) > 1 THEN <<payment_method_id[1]>> ELSE payment_method_id

FabricatedAsCard(payment_method_id, draw) ==
    [payment_method_id |-> payment_method_id,
     customer_id |-> split_first(payment_method_id),
     type |-> "card", drawn |-> draw]

\* PaymentMethodRegistry._generate_entity
PaymentMethodRegistry_generate_entity(payment_method_id, draw) ==
    [payment_method_id |-> payment_method_id,
     customer_id |-> split_first(payment_method_id),
     type |-> "bnpl_account", drawn |-> draw]

\* DeviceRegistry._generate_entity
DeviceRegistry_generate_entity(device_id, draw) ==
    [device_id |-> device_id, drawn |-> draw]

\* EntityRegistry.get_or_create on the registry reg of st; entity_data is what
\* _generate_entity returns if it is called.
get_or_create(st, reg, max_entities, entity_id, entity_data) ==
    IF entity_id \in DictKeys(st[reg])
    THEN [st |-> st, result |-> DictGet(st[reg], entity_id), error |-> ""]
    ELSE LET res == register(st[reg], max_entities, entity_id, entity_data)
         IN [st |-> [st EXCEPT ![reg] = res.entities,
                               !.fabricated = Fabricate(@, <<reg, entity_id>>)],
             result |-> entity_data, error |-> res.error]

\* get_or_create_customer: a known id if there is one and the draw says
\* repeat, else the next new id, appended to the list before the lookup
get_or_create_customer(st, repeat, pick) ==
    IF st.known # << >> /\ repeat
    THEN get_or_create(st, "customers", max_customers, st.known[pick],
             CustomerRegistry_generate_entity(st.known[pick],
                 FabCount(st.fabricated, <<"customers", st.known[pick]>>)))
    ELSE get_or_create([st EXCEPT !.known = Append(@, <<"cust", Len(st.known) + 1>>)],
             "customers", max_customers, <<"cust", Len(st.known) + 1>>,
             CustomerRegistry_generate_entity(<<"cust", Len(st.known) + 1>>,
                 FabCount(st.fabricated, <<"customers", <<"cust", Len(st.known) + 1>>>>)))

ProductRegistryOneShort(st, n, bnpl_eligible) ==
    get_or_create(st, "products", max_products - 1, <<"prod", n>>,
        ProductRegistry_generate_entity(<<"prod", n>>,
            FabCount(st.fabricated, <<"products", <<"prod", n>>>>), bnpl_eligible))

\* get_product with random.randint(1, max_products) = n
get_product(st, n, bnpl_eligible) ==
    get_or_create(st, "products", max_products, <<"prod", n>>,
        ProductRegistry_generate_entity(<<"prod", n>>,
            FabCount(st.fabricated, <<"products", <<"prod", n>>>>), bnpl_eligible))

\* get_device with random.randint(1, 2) = k
get_device(st, customer_id, k) ==
    get_or_create(st, "devices", DefaultMaxDevices, customer_id \o <<"device", k>>,
        DeviceRegistry_generate_entity(customer_id \o <<"device", k>>,
            FabCount(st.fabricated, <<"devices", customer_id \o <<"device", k>>>>)))

\* should_use_bnpl
should_use_bnpl(product, below_adoption_rate) ==
    IF ~product.bnpl_eligible THEN FALSE ELSE below_adoption_rate

\* payment_method["type"] = "bnpl_account" on the dict the registry holds
OverrideType(got, payment_method_id) ==
    [st |-> [got.st EXCEPT !.payment_methods =
                DictSet(@, payment_method_id, [got.result EXCEPT !.type = "bnpl_account"])],
     result |-> [got.result EXCEPT !.type = "bnpl_account"],
     error |-> got.error]

\* get_payment_method with random.randint(1, 3) = k
get_payment_method(st, customer_id, require_bnpl, k) ==
    IF require_bnpl
    THEN OverrideType(
             get_or_create(st, "payment_methods", DefaultMaxPaymentMethods,
                 customer_id \o <<"pm", k>>,
                 PaymentMethodRegistry_generate_entity(customer_id \o <<"pm", k>>,
                     FabCount(st.fabricated, <<"payment_methods", customer_id \o <<"pm", k>>>>))),
             customer_id \o <<"pm", k>>)
    ELSE get_or_create(st, "payment_methods", DefaultMaxPaymentMethods,
             customer_id \o <<"pm", k>>,
             PaymentMethodRegistry_generate_entity(customer_id \o <<"pm", k>>,
                 FabCount(st.fabricated, <<"payment_methods", customer_id \o <<"pm", k>>>>)))

Failed(got, error) ==
    [st |-> got.st, error |-> error, use_bnpl |-> FALSE,
     transaction |-> None, customer |-> None,
     product |-> None, device |-> None, payment_method |-> None]

\* the transaction dict and the entities it was built from
Built(customer, product, device, use_bnpl, pm) ==
    [st |-> pm.st, error |-> "", use_bnpl |-> use_bnpl,
     transaction |-> Some([customer_id |-> customer.customer_id,
                           product_id |-> product.product_id,
                           device_id |-> device.result.device_id,
                           payment_method_id |-> pm.result.payment_method_id]),
     customer |-> Some(customer), product |-> Some(product),
     device |-> Some(device.result), payment_method |-> Some(pm.result)]

WithProduct(customer, p, k, below_adoption_rate, pm_k) ==
    IF p.error # "" THEN Failed(p, p.error)
    ELSE Built(customer, p.result,
               get_device(p.st, customer.customer_id, k),
               should_use_bnpl(p.result, below_adoption_rate),
               get_payment_method(get_device(p.st, customer.customer_id, k).st,
                                  customer.customer_id,
                                  should_use_bnpl(p.result, below_adoption_rate), pm_k))

WithCustomer(c, n, bnpl_eligible, k, below_adoption_rate, pm_k) ==
    IF c.error # "" THEN Failed(c, c.error)
    ELSE IF max_products < 1 THEN Failed(c, "ValueError")
    ELSE WithProduct(c.result, get_product(c.st, n, bnpl_eligible),
                     k, below_adoption_rate, pm_k)

\* generate_base_transaction under the given draws
generate_base_transaction(st, repeat, pick, n, bnpl_eligible, k, below_adoption_rate, pm_k) ==
    WithCustomer(get_or_create_customer(st, repeat, pick),
                 n, bnpl_eligible, k, below_adoption_rate, pm_k)

GenerateBaseTransaction ==
    /\ ecom_calls < MaxEcomCalls
    /\ \E repeat \in BOOLEAN, n \in 1..Max2(1, max_products),
          k \in DeviceNumbers, below_adoption_rate \in BOOLEAN,
          pm_k \in PaymentMethodNumbers :
       \E pick \in (IF repeat THEN 1..Max2(1, Len(_known_customer_ids)) ELSE {1}),
          bnpl_eligible \in (IF <<"prod", n>> \in DictKeys(products) THEN {TRUE} ELSE BOOLEAN) :
         LET out == generate_base_transaction(EcomState, repeat, pick, n,
                        bnpl_eligible, k, below_adoption_rate, pm_k)
         IN /\ customers' = out.st.customers
            /\ products' = out.st.products
            /\ payment_methods' = out.st.payment_methods
            /\ devices' = out.st.devices
            /\ fabricated' = out.st.fabricated
            /\ _known_customer_ids' = out.st.known
            /\ ecom_last' = [op |-> "generate_base_transaction", error |-> out.error,
                             use_bnpl |-> out.use_bnpl,
                             product_cached |->
                                 /\ ~IsNone(out.product)
                                 /\ Val(out.product).product_id \in DictKeys(products),
                             payment_method_cached |->
                                 /\ ~IsNone(out.payment_method)
                                 /\ Val(out.payment_method).payment_method_id
                                        \in DictKeys(payment_methods),
                             transaction |-> out.transaction, customer |-> out.customer,
                             product |-> out.product, device |-> out.device,
                             payment_method |-> out.payment_method]
    /\ ecom_calls' = ecom_calls + 1
    /\ UNCHANGED <<max_customers, max_products>>
    /\ UNCHANGED exceptEcom

RegistryNames == {"customers", "products", "payment_methods", "devices"}

\* ids the registries are asked for directly
EcomIds(reg) ==
    CASE reg = "customers" -> {<<"cust", 1>>, <<"cust", 2>>}
      [] reg = "products" -> {<<"prod", 1>>}
      [] reg = "payment_methods" -> {<<"cust", 1, "pm", 1>>}
      [] reg = "devices" -> {<<"cust", 1, "device", 1>>}

RegistryOf(reg) == EcomState[reg]

\* the max_entities each registry was constructed with
max_entities_of(reg) ==
    CASE reg = "customers" -> max_customers
      [] reg = "products" -> max_products
      [] reg = "payment_methods" -> DefaultMaxPaymentMethods
      [] reg = "devices" -> DefaultMaxDevices

\* _generate_entity of the registry's class
generate_entity_of(reg, entity_id, draw, bnpl_eligible) ==
    CASE reg = "customers" -> CustomerRegistry_generate_entity(entity_id, draw)
      [] reg = "products" -> ProductRegistry_generate_entity(entity_id, draw, bnpl_eligible)
      [] reg = "payment_methods" -> PaymentMethodRegistry_generate_entity(entity_id, draw)
      [] reg = "devices" -> DeviceRegistry_generate_entity(entity_id, draw)

\* EntityRegistry.get on one of the generator's registries
RegistryGet(reg, entity_id) ==
    /\ ecom_calls < MaxEcomCalls
    /\ ecom_last' = [op |-> "get", reg |-> reg, id |-> entity_id,
                     result |-> IF entity_id \in DictKeys(RegistryOf(reg))
                                THEN Some(DictGet(RegistryOf(reg), entity_id)) ELSE None]
    /\ UNCHANGED <<max_customers, max_products, customers, products, payment_methods,
                   devices, fabricated, _known_customer_ids>>
    /\ ecom_calls' = ecom_calls + 1
    /\ UNCHANGED exceptEcom

\* EntityRegistry.exists on one of the generator's registries
RegistryExists(reg, entity_id) ==
    /\ ecom_calls < MaxEcomCalls
    /\ ecom_last' = [op |-> "exists", reg |-> reg, id |-> entity_id,
                     result |-> entity_id \in DictKeys(RegistryOf(reg))]
    /\ UNCHANGED <<max_customers, max_products, customers, products, payment_methods,
                   devices, fabricated, _known_customer_ids>>
    /\ ecom_calls' = ecom_calls + 1
    /\ UNCHANGED exceptEcom

\* EntityRegistry.get_or_create on one of the generator's registries
RegistryGetOrCreate(reg, entity_id) ==
    /\ ecom_calls < MaxEcomCalls
    /\ \E bnpl_eligible \in BOOLEAN :
         LET out == get_or_create(EcomState, reg, max_entities_of(reg), entity_id,
                        generate_entity_of(reg, entity_id,
                            FabCount(fabricated, <<reg, entity_id>>), bnpl_eligible))
         IN /\ customers' = out.st.customers
            /\ products' = out.st.products
            /\ payment_methods' = out.st.payment_methods
            /\ devices' = out.st.devices
            /\ fabricated' = out.st.fabricated
            /\ ecom_last' = [op |-> "get_or_create", reg |-> reg, id |-> entity_id,
                             error |-> out.error,
                             result |-> IF out.error = "" THEN Some(out.result) ELSE None]
    /\ ecom_calls' = ecom_calls + 1
    /\ UNCHANGED <<max_customers, max_products, _known_customer_ids>>
    /\ UNCHANGED exceptEcom

\* BaseEcommerceGenerator.__init__: four empty registries and an empty list
InitEcom ==
    /\ max_customers \in MaxCustomersSamples
    /\ max_products \in MaxProductsSamples
    /\ customers = << >> /\ products = << >>
    /\ payment_methods = << >> /\ devices = << >>
    /\ fabricated = << >>
    /\ _known_customer_ids = << >>
    /\ ecom_calls = 0
    /\ ecom_last = [op |-> "construct"]
    /\ IdleExceptEcom

NextEcom ==
    \/ GenerateBaseTransaction
    \/ \E reg \in RegistryNames : \E entity_id \in EcomIds(reg) : RegistryGet(reg, entity_id)
    \/ \E reg \in RegistryNames : \E entity_id \in EcomIds(reg) : RegistryExists(reg, entity_id)
    \/ \E reg \in RegistryNames : \E entity_id \in EcomIds(reg) : RegistryGetOrCreate(reg, entity_id)

SpecEcom == InitEcom /\ [][NextEcom]_vars

\* C25: an entity that is cached before and after a step keeps every attribute
\* value and is not fabricated again; get, exists and get_or_create on a
\* cached id return its attributes and leave every registry, and so count(),
\* as it was; the payment method a transaction reuses with require_bnpl true
\* is returned with the attributes it was fabricated with.
C25_KeepsCached(reg) ==
    \A entity_id \in DictKeys(RegistryOf(reg)) \cap DictKeys(RegistryOf(reg)') :
        /\ DictGet(RegistryOf(reg)', entity_id) = DictGet(RegistryOf(reg), entity_id)
        /\ FabCount(fabricated', <<reg, entity_id>>) = FabCount(fabricated, <<reg, entity_id>>)

C25_LookupOfCached ==
    (/\ ecom_last' # ecom_last
     /\ ecom_last'.op \in {"get", "exists", "get_or_create"}
     /\ ecom_last'.id \in DictKeys(RegistryOf(ecom_last'.reg)))
    => /\ ecom_last'.result =
             (IF ecom_last'.op = "exists" THEN TRUE
              ELSE Some(DictGet(RegistryOf(ecom_last'.reg), ecom_last'.id)))
       /\ \A reg \in RegistryNames :
             /\ RegistryOf(reg)' = RegistryOf(reg)
             /\ Len(RegistryOf(reg)') = Len(RegistryOf(reg))
       /\ fabricated' = fabricated

C25_ReusedPaymentMethod ==
    (/\ ecom_last' # ecom_last
     /\ ecom_last'.op = "generate_base_transaction"
     /\ ecom_last'.payment_method_cached)
    => Val(ecom_last'.payment_method) =
           DictGet(payment_methods, Val(ecom_last'.payment_method).payment_method_id)

C25_CachedEntityUnchanged ==
    [][/\ \A reg \in RegistryNames : C25_KeepsCached(reg)
       /\ C25_LookupOfCached
       /\ C25_ReusedPaymentMethod]_vars

C25_Witness ==
    /\ ecom_last.op = "generate_base_transaction"
    /\ ecom_last.error = ""
    /\ ecom_last.use_bnpl
    /\ ecom_last.payment_method_cached
    /\ FabCount(fabricated, <<"payment_methods",
                              Val(ecom_last.payment_method).payment_method_id>>) = 1
    /\ Val(ecom_last.payment_method).type = "bnpl_account"

\* C26: the product registry never holds more than max_products entries and
\* never loses one: a product held before a step is held after it with the
\* same attributes, and the product of every transaction is the one the
\* registry holds for its product_id, which is the one it held before if the
\* id was already there.
C26_ProductsNeverEvicted ==
    [][/\ \A product_id \in DictKeys(products) :
            /\ product_id \in DictKeys(products')
            /\ DictGet(products', product_id) = DictGet(products, product_id)
       /\ Len(products') <= Max2(max_products, 0)
       /\ (/\ ecom_last' # ecom_last
           /\ ecom_last'.op = "generate_base_transaction"
           /\ ecom_last'.error = "")
          => /\ Val(ecom_last'.product) =
                   DictGet(products', Val(ecom_last'.transaction).product_id)
             /\ ecom_last'.product_cached
                   => Val(ecom_last'.product) =
                          DictGet(products, Val(ecom_last'.transaction).product_id)]_vars

C26_Witness ==
    /\ ecom_last.op = "generate_base_transaction"
    /\ ecom_last.error = ""
    /\ ecom_last.product_cached
    /\ Len(products) = max_products
    /\ FabCount(fabricated, <<"products", Val(ecom_last.transaction).product_id>>) = 1

\* C27: in every state after a transaction was built, each id in the list of
\* known customer ids is held by the customer registry, and no customer id
\* has been fabricated more than once.
C27_AsStated ==
    (ecom_last.op = "generate_base_transaction" /\ ecom_last.error = "")
    => \A i \in 1..Len(_known_customer_ids) :
          /\ _known_customer_ids[i] \in DictKeys(customers)
          /\ FabCount(fabricated, <<"customers", _known_customer_ids[i]>>) <= 1

\* C28: the payment method of every transaction has the transaction's
\* customer_id as its customer_id attribute.
C28_AsStated ==
    (ecom_last.op = "generate_base_transaction" /\ ecom_last.error = "")
    => Val(ecom_last.payment_method).customer_id = Val(ecom_last.transaction).customer_id
----------------------------------------------------------------------------
(* POST /stream/{generator_name} with a request body.  The body is a      *)
(* GeneratorConfig; BNPLGenerator.__init__ turns it into a BNPLConfig,    *)
(* whose volume_variation_enabled is True, and in historical mode builds  *)
(* the timestamps, seeding numpy for the first day of the window.         *)

\* the seed and the date window of the request bodies sampled
BodySeeds == StreamSeeds
BodyWindows == {<<None, None>>, <<Some(0), Some(0)>>, <<Some(0), Some(2)>>,
                <<Some(2), Some(0)>>}

\* BNPLGenerator.__init__: the message of the ValueError it raises, or << >>
BNPLGenerator_init(seed, start, end) ==
    IF /\ ~IsNone(start) /\ ~IsNone(end)
       /\ Truthy(seed)
       /\ ~NumpySeedOk(Val(seed) + toordinal(Val(start)))
    THEN <<"Seed must be between 0 and 2**32 - 1">>
    ELSE << >>

\* PluginRegistry.create_generator(name, config)
create_generator_from(catalog, generator_name, seed, start, end) ==
    IF IsNone(get_generator(catalog, generator_name))
    THEN [error |-> <<"Unknown generator: ", generator_name>>, generator |-> None]
    ELSE IF Val(get_generator(catalog, generator_name)) = "BNPLGenerator"
              /\ BNPLGenerator_init(seed, start, end) # << >>
         THEN [error |-> BNPLGenerator_init(seed, start, end), generator |-> None]
         ELSE [error |-> << >>, generator |-> get_generator(catalog, generator_name)]

\* stream_data for a request body: 422 if validation rejects the body, 404
\* for a ValueError out of create_generator, else the streaming response
PostStream(generator_name, seed, start, end) ==
    /\ LET res == create_generator_from(_generators, generator_name, seed, start, end)
           body == [seed |-> seed, start_date |-> start, end_date |-> end]
       IN plugin_last' =
            IF validate_date_range(start, end) # "ok"
            THEN [op |-> "post_stream", name |-> generator_name, body |-> body,
                  status |-> 422, detail |-> <<validate_date_range(start, end)>>]
            ELSE IF res.error # << >>
            THEN [op |-> "post_stream", name |-> generator_name, body |-> body,
                  status |-> 404, detail |-> res.error]
            ELSE [op |-> "post_stream", name |-> generator_name, body |-> body,
                  status |-> 200, detail |-> << >>]
    /\ UNCHANGED _generators
    /\ UNCHANGED exceptPlugin

NextRoute ==
    \/ \E generator_name \in GeneratorNames, cls \in PluginClasses :
          RegisterGenerator(generator_name, cls)
    \/ \E generator_name \in GeneratorNames, seed \in BodySeeds, w \in BodyWindows :
          PostStream(generator_name, seed, w[1], w[2])

SpecRoute == InitPlugin /\ [][NextRoute]_vars

\* C29: a request for a registered name whose body validation accepts is
\* never answered 404.
C29_AsStated ==
    (/\ plugin_last.op = "post_stream"
     /\ plugin_last.name \in DictKeys(_generators)
     /\ plugin_last.status # 422)
    => plugin_last.status # 404
----------------------------------------------------------------------------
\* C30: in every record generate_record returns, amount is the product's
\* price and lies in [15, 400]; installment_count is 4 or 6, and 4 when
\* amount < 100; when will_default is true days_to_first_missed_payment is a
\* multiple of 14 from 14 to 14 x installment_count, so at most 84.
C30_AmountPlanAndMissedPayment ==
    ~IsNone(bnpl_record) =>
        LET record == Val(bnpl_record)
            days == record.days_to_first_missed_payment
        IN /\ record.amount = record.product_price
           /\ 15 <= record.amount /\ record.amount <= 400
           /\ record.installment_count \in {4, 6}
           /\ record.amount < 100 => record.installment_count = 4
           /\ record.will_default
                => /\ ~IsNone(days)
                   /\ Val(days) % 14 = 0
                   /\ 14 <= Val(days)
                   /\ Val(days) <= 14 * record.installment_count
                   /\ Val(days) <= 84

\* A defaulting record at the top price on the six-payment plan, missing the
\* last payment.
C30_Witness ==
    /\ ~IsNone(bnpl_record)
    /\ Val(bnpl_record).amount = 400
    /\ Val(bnpl_record).installment_count = 6
    /\ Val(bnpl_record).will_default
    /\ Val(bnpl_record).days_to_first_missed_payment = Some(84)
====
